---- MODULE Spec2Model ----
(***************************************************************************)
(* Cooking-session engine and timer supervisor of ottocook.                *)
(*                                                                         *)
(* The engine (package engine) and the supervisor (package timer) share    *)
(* the sessions of one MemoryStore.  The store keeps *domain.Session       *)
(* pointers: Load and ListActive hand out the stored pointer, so the       *)
(* engine and the supervisor mutate the same object and Save of a loaded   *)
(* session re-binds the same pointer.  `sessions` is that heap of session  *)
(* objects keyed by id.  Neither the engine nor the supervisor takes a     *)
(* lock around load -> mutate -> save, so the supervisor goroutine is      *)
(* modelled as a process whose steps interleave with the engine calls made *)
(* by the application goroutine.                                           *)
(* An engine call is one step; processSession is several: its status       *)
(* check, and each loop iteration split where it has read the timer's      *)
(* status and not yet written the timer.                                   *)
(*                                                                         *)
(* Time is counted in abstract units; a timer duration of 0 in a recipe    *)
(* step stands for "no TimerConfig".                                       *)
(***************************************************************************)
EXTENDS Integers, Sequences, FiniteSets, TLC

\* ---------------------------------------------------------------- bounds
MaxSteps == 2          \* longest recipe of the model
MaxDur == 4            \* longest timer duration
MaxNow == 6            \* Spec: the clock stops ticking here
MaxNowLong == 18       \* SpecLong: the clock stops ticking here
MaxSay == 3            \* SpecMouth: requests enqueued in all
MaxChunks == 2         \* SpecMouth: chunks of the longest request
MaxVersion == 3        \* SpecSource: highest version of a recipe passed
MaxUpdates == 3        \* SpecSource: calls of Update in all
MaxOnStep == 9         \* SpecWatch: longest time spent on a step
MaxRecipeLen == 3      \* SpecModify: longest recipe the applier makes
MaxActions == 2        \* SpecModify: actions in one modify response

\* ------------------------------------------------- supervisor configuration
\* The fields New() sets (each has a With... option).  The time unit is half
\* a tick; the cooldown and the two thresholds are scaled down with the timer
\* durations of the model and keep their order:
\* tick < cooldown, almost-done threshold < reminder interval.
TickInterval == 2
NotifyCooldown == 3
MaxEscalation == 3
ReminderInterval == 2
AlmostDoneThreshold == 1

\* Watcher.buildMessage: the time on a step without Duration after which the
\* watcher speaks (3 minutes), scaled down like the durations.
ManualStepLimit == 3

SessionIds == {"s1"}
RecipeIds == {"r1"}
UnknownRecipe == "nope"
ZeroTime == 0

\* domain.SessionStatus, domain.StepStatus, domain.TimerStatus
SessionActive == "active"
SessionPaused == "paused"
SessionCompleted == "completed"
SessionAbandoned == "abandoned"
StepPending == "pending"
StepActive == "active"
StepDone == "done"
StepSkipped == "skipped"
TimerPending == "pending"
TimerRunning == "running"
TimerPaused == "paused"
TimerFired == "fired"
TimerDismissed == "dismissed"

\* domain errors
ErrNone == "ok"
ErrNotFound == "not found"
ErrSessionNotActive == "session is not active"
ErrSessionPaused == "session is paused"
ErrNoMoreSteps == "no more steps in recipe"
ErrTimerNotFound == "timer not found"
ErrCannotDismiss == "cannot dismiss"

VARIABLES
    recipes,       \* MemorySource.recipes: recipe id -> sequence of steps
    sessions,      \* MemoryStore.sessions: session id -> session object
    notes,         \* notifier: session id -> timer id -> sequence of messages
    now,           \* the wall clock
    horizon,       \* the time at which the model stops following the clock
    supPc,         \* where the supervisor goroutine is
    supList,       \* tick(): sessions of ListActive still to process
    supSid,        \* processSession(): its session
    supNow,        \* processSession(): now
    supChanged,    \* processSession(): changed
    supKeys,       \* range loop: the keys the map had when the loop began
    supSeen,       \* range loop: keys already produced
    supTimer,      \* range loop: the key of the current iteration
    observing,     \* observer: whether the observers record
    tickBase,      \* observer: the store and the notifier as the tick began
    tickDisturbed, \* observer: timers an engine call disturbed during the tick
    pauseBase,     \* observer: session id -> its timers as Pause found them
    queue,         \* Mouth.queue
    notify,        \* Mouth.notify: signals buffered in the channel
    signals,       \* Say calls between their unlock and their send on notify
    speaking,      \* Mouth.speaking
    interrupted,   \* Mouth.interrupted
    mouthPc,       \* where the processLoop goroutine is
    item,          \* drain(): the request dequeued
    audioSlots,    \* process(): the chunks synthesis gave audio for
    chunk,         \* process(): the chunk the playback loop is at
    active,        \* Player.active
    sounding,      \* the oto players that are playing
    interruptPc,   \* where the caller of Interrupt is
    queued,        \* observer: requests enqueued so far (QueuedAt of the last)
    interruptAt,   \* observer: `queued` when the Interrupt in progress cleared
    returnedAt,    \* observer: `queued` at the clearing of the last returned Interrupt
    cutRequest,    \* observer: the request sounding when the last Interrupt cleared
    opPc,          \* where an Advance or Skip taken write by write is
    opSid,         \* its session
    opMark,        \* the status it gives the step it leaves
    opBase,        \* observer: the session as its Load found it
    opAfter,       \* observer: that session after the whole operation
    state,         \* Ear.state
    muted,         \* Ear.muted
    paused,        \* Detector.paused
    wakeCh,        \* Ear.wakeCh: detections buffered in the channel
    earPc,         \* where the Ear.Run goroutine is
    callPc,        \* where each caller of Mute or Unmute is
    curState,      \* Mute, Unmute: the state each caller read
    earLog,        \* observer: what onWakeWord has done for this detection
    stOp,          \* observer: the last call on the MemoryStore
    stArg,         \* observer: its argument (a session, or a session id)
    stErr,         \* the error that call returned
    stOut,         \* the session or the sessions that call returned
    versions,      \* MemorySource.recipes: recipe id -> Recipe.Version
    updArg,        \* observer: the recipe passed to the last Update
    updErr,        \* the error that Update returned
    updCount,      \* observer: the number of Update calls so far
    watchPc,       \* where the Watcher goroutine is
    watchList,     \* check(): sessions of ListActive still to inspect
    watchListed,   \* observer: what ListActive returned to this cycle
    watchCount     \* observer: session id -> Notify calls of this cycle

mouthVars == <<queue, notify, signals, speaking, interrupted, mouthPc, item,
               audioSlots, chunk, active, sounding, interruptPc,
               queued, interruptAt, returnedAt, cutRequest>>

opVars == <<opPc, opSid, opMark, opBase, opAfter>>

earVars == <<state, muted, paused, wakeCh, earPc, callPc, curState, earLog>>

storeVars == <<stOp, stArg, stErr, stOut>>

sourceVars == <<versions, updArg, updErr, updCount>>

watchVars == <<watchPc, watchList, watchListed, watchCount>>

vars == <<recipes, sessions, notes, now, horizon,
          supPc, supList, supSid, supNow, supChanged, supKeys, supSeen, supTimer,
          observing, tickBase, tickDisturbed, pauseBase, mouthVars, opVars,
          earVars, storeVars, sourceVars, watchVars>>
obsVars == <<tickBase, tickDisturbed, pauseBase>>
supVars == <<supPc, supList, supSid, supNow, supChanged, supKeys, supSeen, supTimer>>

\* ------------------------------------------------------------- recipes
\* A step: its id and its TimerConfig duration (0: no TimerConfig).
Step(i, d) == [id |-> i, timer |-> d]

RecipeSet ==
    UNION { { [i \in 1..n |-> Step(i, f[i])] : f \in [1..n -> 0..MaxDur] }
            : n \in 1..MaxSteps }

\* fmt.Sprintf("timer-%s", step.ID)
TimerID(stepID) == <<"timer", stepID>>

\* recipe.Steps[i], 0-based as in the code
StepAt(recipe, i) == recipe[i + 1]

UnknownTimer == TimerID(0)

\* the timer ids a call can name
TimerIds == {TimerID(i) : i \in 0..MaxSteps}

\* ------------------------------------------------------------- engine
\* An engine call is a function of the store: what it returns (err, val) and
\* the store it leaves behind.
Result(err, val, store) == [err |-> err, val |-> val, sessions |-> store]

NewTimer(step) ==
    [stepID |-> step.id, duration |-> step.timer, remaining |-> step.timer,
     status |-> TimerPending, lastNotified |-> ZeroTime,
     lastRemindedAt |-> ZeroTime, warnedAlmost |-> FALSE, escalationLevel |-> 0]

\* maybeStartTimer: the session's TimerStates after the call
MaybeStartTimer(timers, step) ==
    IF step.timer = 0 THEN timers
    ELSE (TimerID(step.id) :> NewTimer(step)) @@ timers

\* StartSession with the id generateID() produced; val is that id
StartSessionCall(recipeID, sid) ==
    IF recipeID \notin DOMAIN recipes
    THEN Result(ErrNotFound, "", sessions)
    ELSE LET recipe == recipes[recipeID]
             n == Len(recipe)
             session ==
               [recipeID |-> recipeID,
                currentStepIndex |-> 0,
                stepStates |-> [i \in 0..(n - 1) |->
                                  IF i = 0 THEN StepActive ELSE StepPending],
                timerStates |-> MaybeStartTimer(<<>>, StepAt(recipe, 0)),
                status |-> SessionActive]
         IN Result(ErrNone, sid, (sid :> session) @@ sessions)

\* Advance that leaves the step it moves away from as it was
AdvanceCallLeavesStepActive(sid) ==
    IF sid \notin DOMAIN sessions THEN Result(ErrNotFound, 0, sessions)
    ELSE LET s == sessions[sid]
             recipe == recipes[s.recipeID]
             nextIdx == s.currentStepIndex + 1
         IN IF s.status # SessionActive
            THEN Result(ErrSessionNotActive, 0, sessions)
            ELSE IF nextIdx >= Len(recipe)
            THEN Result(ErrNoMoreSteps, 0,
                        [sessions EXCEPT ![sid].status = SessionCompleted])
            ELSE Result(ErrNone, StepAt(recipe, nextIdx).id,
                        [sessions EXCEPT ![sid] =
                            [s EXCEPT !.stepStates[nextIdx] = StepActive,
                                      !.currentStepIndex = nextIdx,
                                      !.timerStates =
                                          MaybeStartTimer(s.timerStates,
                                                          StepAt(recipe, nextIdx))]])

\* Advance that activates the next step and leaves the index where it was
AdvanceCallKeepsIndex(sid) ==
    IF sid \notin DOMAIN sessions THEN Result(ErrNotFound, 0, sessions)
    ELSE LET s == sessions[sid]
             recipe == recipes[s.recipeID]
             nextIdx == s.currentStepIndex + 1
             done == [s.stepStates EXCEPT ![s.currentStepIndex] = StepDone]
         IN IF s.status # SessionActive
            THEN Result(ErrSessionNotActive, 0, sessions)
            ELSE IF nextIdx >= Len(recipe)
            THEN Result(ErrNoMoreSteps, 0,
                        [sessions EXCEPT ![sid] =
                            [s EXCEPT !.stepStates = done,
                                      !.status = SessionCompleted]])
            ELSE Result(ErrNone, StepAt(recipe, nextIdx).id,
                        [sessions EXCEPT ![sid] =
                            [s EXCEPT !.stepStates =
                                          [done EXCEPT ![nextIdx] = StepActive],
                                      !.timerStates =
                                          MaybeStartTimer(s.timerStates,
                                                          StepAt(recipe, nextIdx))]])

\* Advance whose status check lets a paused session through
AdvanceCallWhilePaused(sid) ==
    IF sid \notin DOMAIN sessions THEN Result(ErrNotFound, 0, sessions)
    ELSE LET s == sessions[sid]
             recipe == recipes[s.recipeID]
             nextIdx == s.currentStepIndex + 1
             done == [s.stepStates EXCEPT ![s.currentStepIndex] = StepDone]
         IN IF s.status \notin {SessionActive, SessionPaused}
            THEN Result(ErrSessionNotActive, 0, sessions)
            ELSE IF nextIdx >= Len(recipe)
            THEN Result(ErrNoMoreSteps, 0,
                        [sessions EXCEPT ![sid] =
                            [s EXCEPT !.stepStates = done,
                                      !.status = SessionCompleted]])
            ELSE Result(ErrNone, StepAt(recipe, nextIdx).id,
                        [sessions EXCEPT ![sid] =
                            [s EXCEPT !.stepStates =
                                          [done EXCEPT ![nextIdx] = StepActive],
                                      !.currentStepIndex = nextIdx,
                                      !.timerStates =
                                          MaybeStartTimer(s.timerStates,
                                                          StepAt(recipe, nextIdx))]])

\* Advance; val is the id of the step returned (0: none)
AdvanceCall(sid) ==
    IF sid \notin DOMAIN sessions THEN Result(ErrNotFound, 0, sessions)
    ELSE LET s == sessions[sid]
             recipe == recipes[s.recipeID]
             nextIdx == s.currentStepIndex + 1
             done == [s.stepStates EXCEPT ![s.currentStepIndex] = StepDone]
         IN IF s.status # SessionActive
            THEN Result(ErrSessionNotActive, 0, sessions)
            ELSE IF nextIdx >= Len(recipe)
            THEN Result(ErrNoMoreSteps, 0,
                        [sessions EXCEPT ![sid] =
                            [s EXCEPT !.stepStates = done,
                                      !.status = SessionCompleted]])
            ELSE Result(ErrNone, StepAt(recipe, nextIdx).id,
                        [sessions EXCEPT ![sid] =
                            [s EXCEPT !.stepStates =
                                          [done EXCEPT ![nextIdx] = StepActive],
                                      !.currentStepIndex = nextIdx,
                                      !.timerStates =
                                          MaybeStartTimer(s.timerStates,
                                                          StepAt(recipe, nextIdx))]])

\* Skip that marks the last step skipped but leaves the session active
SkipCallNeverCompletes(sid) ==
    IF sid \notin DOMAIN sessions THEN Result(ErrNotFound, 0, sessions)
    ELSE LET s == sessions[sid]
             recipe == recipes[s.recipeID]
             nextIdx == s.currentStepIndex + 1
             skipped == [s.stepStates EXCEPT ![s.currentStepIndex] = StepSkipped]
         IN IF s.status # SessionActive
            THEN Result(ErrSessionNotActive, 0, sessions)
            ELSE IF nextIdx >= Len(recipe)
            THEN Result(ErrNoMoreSteps, 0,
                        [sessions EXCEPT ![sid].stepStates = skipped])
            ELSE Result(ErrNone, StepAt(recipe, nextIdx).id,
                        [sessions EXCEPT ![sid] =
                            [s EXCEPT !.stepStates =
                                          [skipped EXCEPT ![nextIdx] = StepActive],
                                      !.currentStepIndex = nextIdx,
                                      !.timerStates =
                                          MaybeStartTimer(s.timerStates,
                                                          StepAt(recipe, nextIdx))]])

\* Skip that dismisses the running and fired timers of the step it leaves
SkipCallDismissesStepTimers(sid) ==
    IF sid \notin DOMAIN sessions THEN Result(ErrNotFound, 0, sessions)
    ELSE LET s == sessions[sid]
             recipe == recipes[s.recipeID]
             nextIdx == s.currentStepIndex + 1
             skipped == [s.stepStates EXCEPT ![s.currentStepIndex] = StepSkipped]
             left == StepAt(recipe, s.currentStepIndex).id
             kept == [k \in DOMAIN s.timerStates |->
                        IF /\ s.timerStates[k].stepID = left
                           /\ s.timerStates[k].status \in {TimerRunning, TimerFired}
                        THEN [s.timerStates[k] EXCEPT !.status = TimerDismissed]
                        ELSE s.timerStates[k]]
         IN IF s.status # SessionActive
            THEN Result(ErrSessionNotActive, 0, sessions)
            ELSE IF nextIdx >= Len(recipe)
            THEN Result(ErrNoMoreSteps, 0,
                        [sessions EXCEPT ![sid] =
                            [s EXCEPT !.stepStates = skipped,
                                      !.timerStates = kept,
                                      !.status = SessionCompleted]])
            ELSE Result(ErrNone, StepAt(recipe, nextIdx).id,
                        [sessions EXCEPT ![sid] =
                            [s EXCEPT !.stepStates =
                                          [skipped EXCEPT ![nextIdx] = StepActive],
                                      !.currentStepIndex = nextIdx,
                                      !.timerStates =
                                          MaybeStartTimer(kept, StepAt(recipe, nextIdx))]])

\* Skip; val is the id of the step returned (0: none)
SkipCall(sid) ==
    IF sid \notin DOMAIN sessions THEN Result(ErrNotFound, 0, sessions)
    ELSE LET s == sessions[sid]
             recipe == recipes[s.recipeID]
             nextIdx == s.currentStepIndex + 1
             skipped == [s.stepStates EXCEPT ![s.currentStepIndex] = StepSkipped]
         IN IF s.status # SessionActive
            THEN Result(ErrSessionNotActive, 0, sessions)
            ELSE IF nextIdx >= Len(recipe)
            THEN Result(ErrNoMoreSteps, 0,
                        [sessions EXCEPT ![sid] =
                            [s EXCEPT !.stepStates = skipped,
                                      !.status = SessionCompleted]])
            ELSE Result(ErrNone, StepAt(recipe, nextIdx).id,
                        [sessions EXCEPT ![sid] =
                            [s EXCEPT !.stepStates =
                                          [skipped EXCEPT ![nextIdx] = StepActive],
                                      !.currentStepIndex = nextIdx,
                                      !.timerStates =
                                          MaybeStartTimer(s.timerStates,
                                                          StepAt(recipe, nextIdx))]])

\* every timer with status `from` gets status `to`
Retimed(timers, from, to) ==
    [k \in DOMAIN timers |->
        IF timers[k].status = from THEN [timers[k] EXCEPT !.status = to]
        ELSE timers[k]]

PauseCall(sid) ==
    IF sid \notin DOMAIN sessions THEN Result(ErrNotFound, 0, sessions)
    ELSE LET s == sessions[sid]
         IN IF s.status # SessionActive
            THEN Result(ErrSessionNotActive, 0, sessions)
            ELSE Result(ErrNone, 0,
                        [sessions EXCEPT ![sid] =
                            [s EXCEPT !.status = SessionPaused,
                                      !.timerStates =
                                          Retimed(s.timerStates, TimerRunning, TimerPaused)]])

ResumeCall(sid) ==
    IF sid \notin DOMAIN sessions THEN Result(ErrNotFound, 0, sessions)
    ELSE LET s == sessions[sid]
         IN IF s.status # SessionPaused
            THEN Result(ErrSessionPaused, 0, sessions)
            ELSE Result(ErrNone, 0,
                        [sessions EXCEPT ![sid] =
                            [s EXCEPT !.status = SessionActive,
                                      !.timerStates =
                                          Retimed(s.timerStates, TimerPaused, TimerRunning)]])

AbandonCall(sid) ==
    IF sid \notin DOMAIN sessions THEN Result(ErrNotFound, 0, sessions)
    ELSE Result(ErrNone, 0, [sessions EXCEPT ![sid].status = SessionAbandoned])

PendingTimers(timers) == {k \in DOMAIN timers : timers[k].status = TimerPending}

\* StartPendingTimers that looks at the timer of the current step only
StartPendingTimersCallCurrentStepOnly(sid) ==
    IF sid \notin DOMAIN sessions THEN Result(ErrNotFound, 0, sessions)
    ELSE LET s == sessions[sid]
             k == TimerID(StepAt(recipes[s.recipeID], s.currentStepIndex).id)
         IN IF k \in PendingTimers(s.timerStates)
            THEN Result(ErrNone, 1,
                        [sessions EXCEPT ![sid].timerStates[k].status = TimerRunning])
            ELSE Result(ErrNone, 0, sessions)

\* StartPendingTimers that sets paused timers running as well
StartPendingTimersCallResumesPaused(sid) ==
    IF sid \notin DOMAIN sessions THEN Result(ErrNotFound, 0, sessions)
    ELSE LET s == sessions[sid]
         IN Result(ErrNone, Cardinality(PendingTimers(s.timerStates)),
                   [sessions EXCEPT ![sid].timerStates =
                       Retimed(Retimed(s.timerStates, TimerPending, TimerRunning),
                               TimerPaused, TimerRunning)])

\* StartPendingTimers; val is the count returned
StartPendingTimersCall(sid) ==
    IF sid \notin DOMAIN sessions THEN Result(ErrNotFound, 0, sessions)
    ELSE LET s == sessions[sid]
         IN Result(ErrNone, Cardinality(PendingTimers(s.timerStates)),
                   [sessions EXCEPT ![sid].timerStates =
                       Retimed(s.timerStates, TimerPending, TimerRunning)])

\* DismissTimer that accepts a paused timer too
DismissTimerCallAcceptsPaused(sid, timerID) ==
    IF sid \notin DOMAIN sessions THEN Result(ErrNotFound, 0, sessions)
    ELSE LET s == sessions[sid]
         IN IF timerID \notin DOMAIN s.timerStates
            THEN Result(ErrTimerNotFound, 0, sessions)
            ELSE IF s.timerStates[timerID].status
                       \notin {TimerRunning, TimerFired, TimerPaused}
            THEN Result(ErrCannotDismiss, 0, sessions)
            ELSE Result(ErrNone, 0,
                        [sessions EXCEPT
                            ![sid].timerStates[timerID].status = TimerDismissed])

DismissTimerCall(sid, timerID) ==
    IF sid \notin DOMAIN sessions THEN Result(ErrNotFound, 0, sessions)
    ELSE LET s == sessions[sid]
         IN IF timerID \notin DOMAIN s.timerStates
            THEN Result(ErrTimerNotFound, 0, sessions)
            ELSE IF s.timerStates[timerID].status \notin {TimerRunning, TimerFired}
            THEN Result(ErrCannotDismiss, 0, sessions)
            ELSE Result(ErrNone, 0,
                        [sessions EXCEPT
                            ![sid].timerStates[timerID].status = TimerDismissed])

\* ------------------------------------------------------------- observers
\* The observers record what a claim compares against; no action reads them.
\* They record only when `observing` is set.
NoBase == [remaining |-> <<>>, noted |-> <<>>]

Keys(store) == {<<sid, k>> : sid \in DOMAIN store, k \in TimerIds}

\* the timers that are running in an active session
RunningKeys ==
    {key \in Keys(sessions) :
        /\ sessions[key[1]].status = SessionActive
        /\ key[2] \in DOMAIN sessions[key[1]].timerStates
        /\ sessions[key[1]].timerStates[key[2]].status = TimerRunning}

\* as a tick begins: the remaining of every such timer, and how many
\* notifications each timer has had
BaseNow ==
    [remaining |-> [key \in RunningKeys |->
                      sessions[key[1]].timerStates[key[2]].remaining],
     noted |-> [key \in DOMAIN notes |-> Len(notes[key])]]

\* an engine step took the session out of `active`, or changed the status of
\* the timer
Disturbed(sid, k) ==
    \/ sessions'[sid].status # SessionActive
    \/ /\ k \in DOMAIN sessions[sid].timerStates
       /\ sessions'[sid].timerStates[k].status # sessions[sid].timerStates[k].status

ObserveEngine ==
    IF ~observing THEN UNCHANGED obsVars ELSE
    /\ tickBase' = tickBase
    /\ tickDisturbed' =
          tickDisturbed \cup
          {key \in DOMAIN tickBase.remaining : Disturbed(key[1], key[2])}
    /\ pauseBase' =
          [sid \in {x \in DOMAIN sessions :
                       \/ sessions[x].status = SessionActive
                          /\ sessions'[x].status = SessionPaused
                       \/ x \in DOMAIN pauseBase /\ sessions'[x] = sessions[x]} |->
              IF sessions[sid].status = SessionActive
              THEN [k \in DOMAIN sessions[sid].timerStates |->
                      [status |-> sessions[sid].timerStates[k].status,
                       remaining |-> sessions[sid].timerStates[k].remaining]]
              ELSE pauseBase[sid]]

ObserveSupervisor ==
    IF ~observing THEN UNCHANGED obsVars ELSE
    /\ tickBase' = IF supPc = "idle" THEN BaseNow
                   ELSE IF supPc' = "idle" THEN NoBase
                   ELSE tickBase
    /\ tickDisturbed' = IF supPc = "idle" \/ supPc' = "idle" THEN {} ELSE tickDisturbed
    /\ pauseBase' = pauseBase

\* ------------------------------------------------------------- engine calls
\* The application goroutine makes the call: the store becomes what the call
\* leaves behind.
EngineFrame ==
    /\ UNCHANGED <<recipes, notes, now, horizon, observing, supVars, mouthVars,
                   opVars, earVars, storeVars, sourceVars, watchVars>>
    /\ ObserveEngine

StartSession(recipeID) ==
    /\ \E sid \in SessionIds \ DOMAIN sessions :
          sessions' = StartSessionCall(recipeID, sid).sessions
    /\ EngineFrame

Advance(sid) == sessions' = AdvanceCall(sid).sessions /\ EngineFrame

Skip(sid) == sessions' = SkipCall(sid).sessions /\ EngineFrame

Pause(sid) == sessions' = PauseCall(sid).sessions /\ EngineFrame

Resume(sid) == sessions' = ResumeCall(sid).sessions /\ EngineFrame

Abandon(sid) == sessions' = AbandonCall(sid).sessions /\ EngineFrame

StartPendingTimers(sid) ==
    sessions' = StartPendingTimersCall(sid).sessions /\ EngineFrame

DismissTimer(sid, timerID) ==
    sessions' = DismissTimerCall(sid, timerID).sessions /\ EngineFrame

\* ------------------------------------------------------------- store
\* MemoryStore.ListActive: the ids of the sessions it returns
ListActive ==
    {sid \in DOMAIN sessions :
        sessions[sid].status \in {SessionActive, SessionPaused}}

\* MemoryStore.Save of a session obtained from Load or ListActive: the map
\* entry is re-bound to the pointer it already holds.
Save(store, sid) == store

\* ------------------------------------------------------------- supervisor
\* escalationMessage: the template chosen for a level
EscalationMessage(level) ==
    CASE level = 0 -> "is up"
      [] level = 1 -> "check it now"
      [] level = 2 -> "now"
      [] OTHER -> "plain"

Note(urgent, text, at) == [urgent |-> urgent, text |-> text, at |-> at]

NotesOf(n, sid, k) == IF <<sid, k>> \in DOMAIN n THEN n[<<sid, k>>] ELSE <<>>

\* notifier.Notify / notifier.NotifyUrgent with a message naming timer k
Emit(n, sid, k, note) == (<<sid, k>> :> Append(NotesOf(n, sid, k), note)) @@ n

\* firing without the clamp of line 187
FireTimerUnclamped(ts, at) ==
    [ts EXCEPT !.remaining = ts.remaining - TickInterval,
               !.status = TimerFired,
               !.lastNotified = at,
               !.escalationLevel = 1]

\* lines 186-196: the timer as the tick that brings it to zero leaves it
FireTimer(ts, at) ==
    [ts EXCEPT !.remaining = 0,
               !.status = TimerFired,
               !.lastNotified = at,
               !.escalationLevel = 1]

\* the second loop without the cooldown test of line 247
NeedsFollowUpNoCooldown(ts, at) ==
    /\ ts.status = TimerFired
    /\ ~(ts.escalationLevel > MaxEscalation)

\* the second loop without the escalation cap of line 243
NeedsFollowUpNoCap(ts, at) ==
    /\ ts.status = TimerFired
    /\ ~(ts.lastNotified # ZeroTime /\ at - ts.lastNotified < NotifyCooldown)

\* lines 239-249: a timer the second loop sends a follow-up for
NeedsFollowUp(ts, at) ==
    /\ ts.status = TimerFired
    /\ ~(ts.escalationLevel > MaxEscalation)
    /\ ~(ts.lastNotified # ZeroTime /\ at - ts.lastNotified < NotifyCooldown)

SupFrame ==
    /\ UNCHANGED <<recipes, horizon, observing, mouthVars, opVars,
                   earVars, storeVars, sourceVars, watchVars>>
    /\ ObserveSupervisor

\* loop(): the ticker fires; tick() lists the active sessions
TickBegin ==
    /\ supPc = "idle"
    /\ now + TickInterval <= horizon
    /\ now' = now + TickInterval
    /\ supList' = ListActive
    /\ supPc' = "tick"
    /\ UNCHANGED <<sessions, notes, supSid, supNow, supChanged, supKeys, supSeen, supTimer>>
    /\ SupFrame

\* loop(): the ticker fires after the model has stopped following the clock;
\* the tick runs with the clock reading the horizon left
TickPastHorizon ==
    /\ supPc = "idle"
    /\ now + TickInterval > horizon
    /\ supList' = ListActive
    /\ supPc' = "tick"
    /\ UNCHANGED <<sessions, notes, now, supSid, supNow, supChanged, supKeys,
                   supSeen, supTimer>>
    /\ SupFrame

\* tick(): all sessions of the list processed
TickEnd ==
    /\ supPc = "tick"
    /\ supList = {}
    /\ supPc' = "idle"
    /\ UNCHANGED <<sessions, notes, now, supList, supSid, supNow, supChanged,
                   supKeys, supSeen, supTimer>>
    /\ SupFrame

\* processSession(): entry, the status check and the start of the first loop
ProcessSession(sid) ==
    /\ supPc = "tick"
    /\ sid \in supList
    /\ supList' = supList \ {sid}
    /\ IF sessions[sid].status # SessionActive
       THEN UNCHANGED <<supPc, supSid, supNow, supChanged, supKeys, supSeen>>
       ELSE /\ supPc' = "loop1"
            /\ supSid' = sid
            /\ supNow' = now
            /\ supChanged' = FALSE
            /\ supKeys' = DOMAIN sessions[sid].timerStates
            /\ supSeen' = {}
    /\ UNCHANGED <<sessions, notes, now, supTimer>>
    /\ SupFrame

\* first loop, one iteration up to the status test of line 178
Loop1Visit(k) ==
    /\ supPc = "loop1"
    /\ k \in DOMAIN sessions[supSid].timerStates \ supSeen
    /\ IF sessions[supSid].timerStates[k].status # TimerRunning
       THEN /\ supSeen' = supSeen \cup {k}
            /\ UNCHANGED <<supPc, supTimer>>
       ELSE /\ supPc' = "count"
            /\ supTimer' = k
            /\ UNCHANGED supSeen
    /\ UNCHANGED <<sessions, notes, now, supList, supSid, supNow, supChanged, supKeys>>
    /\ SupFrame

\* first loop, the rest of the iteration: decrement, fire, warn, remind
CountDown ==
    /\ supPc = "count"
    /\ LET k == supTimer
           ts == sessions[supSid].timerStates[k]
           rem == ts.remaining - TickInterval
           remind ==
               /\ ReminderInterval > 0
               /\ ts.duration > ReminderInterval
               /\ IF ts.lastRemindedAt = ZeroTime
                  THEN ts.duration - rem >= ReminderInterval
                  ELSE supNow - ts.lastRemindedAt >= ReminderInterval
       IN IF rem <= 0
          THEN /\ sessions' = [sessions EXCEPT ![supSid].timerStates[k] =
                                    FireTimer(ts, supNow)]
               /\ notes' = Emit(notes, supSid, k,
                                Note(TRUE, EscalationMessage(ts.escalationLevel), supNow))
          ELSE IF ~ts.warnedAlmost /\ rem <= AlmostDoneThreshold
                  /\ ts.duration > AlmostDoneThreshold * 2
          THEN /\ sessions' = [sessions EXCEPT ![supSid].timerStates[k] =
                     [ts EXCEPT !.remaining = rem,
                                !.warnedAlmost = TRUE,
                                !.lastRemindedAt = supNow]]
               /\ notes' = Emit(notes, supSid, k, Note(FALSE, "almost done", supNow))
          ELSE IF remind
          THEN /\ sessions' = [sessions EXCEPT ![supSid].timerStates[k] =
                     [ts EXCEPT !.remaining = rem,
                                !.lastRemindedAt = supNow]]
               /\ notes' = Emit(notes, supSid, k, Note(FALSE, "remaining", supNow))
          ELSE /\ sessions' = [sessions EXCEPT
                     ![supSid].timerStates[k].remaining = rem]
               /\ UNCHANGED notes
    /\ supChanged' = TRUE
    /\ supSeen' = supSeen \cup {supTimer}
    /\ supTimer' = UnknownTimer
    /\ supPc' = "loop1"
    /\ UNCHANGED <<now, supList, supSid, supNow, supKeys>>
    /\ SupFrame

\* the first range loop ends; the second begins
Loop1End ==
    /\ supPc = "loop1"
    /\ supKeys \subseteq supSeen
    /\ supPc' = "loop2"
    /\ supKeys' = DOMAIN sessions[supSid].timerStates
    /\ supSeen' = {}
    /\ UNCHANGED <<sessions, notes, now, supList, supSid, supNow, supChanged, supTimer>>
    /\ SupFrame

\* second loop, one iteration up to the cooldown test of line 247
Loop2Visit(k) ==
    /\ supPc = "loop2"
    /\ k \in DOMAIN sessions[supSid].timerStates \ supSeen
    /\ LET ts == sessions[supSid].timerStates[k]
       IN IF ~NeedsFollowUp(ts, supNow)
          THEN /\ supSeen' = supSeen \cup {k}
               /\ UNCHANGED <<supPc, supTimer>>
          ELSE /\ supPc' = "escalate"
               /\ supTimer' = k
               /\ UNCHANGED supSeen
    /\ UNCHANGED <<sessions, notes, now, supList, supSid, supNow, supChanged, supKeys>>
    /\ SupFrame

\* second loop, the rest of the iteration: the follow-up notification
Escalate ==
    /\ supPc = "escalate"
    /\ LET k == supTimer
           ts == sessions[supSid].timerStates[k]
       IN /\ notes' = Emit(notes, supSid, k,
                           Note(FALSE, EscalationMessage(ts.escalationLevel), supNow))
          /\ sessions' = [sessions EXCEPT ![supSid].timerStates[k] =
                [ts EXCEPT !.lastNotified = supNow,
                           !.escalationLevel = ts.escalationLevel + 1]]
    /\ supChanged' = TRUE
    /\ supSeen' = supSeen \cup {supTimer}
    /\ supTimer' = UnknownTimer
    /\ supPc' = "loop2"
    /\ UNCHANGED <<now, supList, supSid, supNow, supKeys>>
    /\ SupFrame

\* the second range loop ends; the session is saved if anything changed and
\* processSession returns (its locals are gone)
Loop2End ==
    /\ supPc = "loop2"
    /\ supKeys \subseteq supSeen
    /\ sessions' = IF supChanged THEN Save(sessions, supSid) ELSE sessions
    /\ supPc' = "tick"
    /\ supSid' = ""
    /\ supNow' = ZeroTime
    /\ supChanged' = FALSE
    /\ supKeys' = {}
    /\ supSeen' = {}
    /\ UNCHANGED <<notes, now, supList, supTimer>>
    /\ SupFrame

\* -------------------------------------------------------------- mouth
PriorityLow == 0
PriorityNormal == 1
PriorityHigh == 2
PriorityCritical == 3
Priorities == PriorityLow..PriorityCritical

NotifyCapacity == 32

\* A text is modelled by the number of chunks splitChunks cuts it into, and
\* QueuedAt by the rank of the request among all requests enqueued.
Texts == 1..MaxChunks

SpeechRequest(text, priority, queuedAt) ==
    [text |-> text, priority |-> priority, queuedAt |-> queuedAt]

NoRequest == SpeechRequest(0, PriorityLow, 0)

splitChunks(text) == 1..text

\* An oto player is known by the request and the chunk it was made for.
PlayerOf(req, c) == <<req.queuedAt, c>>

NoPlayer == <<0, 0>>

MouthIdle ==
    /\ queue = <<>>
    /\ notify = 0
    /\ signals = 0
    /\ speaking = FALSE
    /\ interrupted = FALSE
    /\ mouthPc = "wait"
    /\ item = NoRequest
    /\ audioSlots = {}
    /\ chunk = 0
    /\ active = NoPlayer
    /\ sounding = {}
    /\ interruptPc = "idle"
    /\ queued = 0
    /\ interruptAt = 0
    /\ returnedAt = 0
    /\ cutRequest = NoPlayer

MouthFrame ==
    UNCHANGED <<recipes, sessions, notes, now, horizon, supVars,
                observing, obsVars, opVars, earVars, storeVars, sourceVars,
                watchVars>>

RECURSIVE flushLowFrom(_, _)
flushLowFrom(q, i) ==
    IF i > Len(q) THEN <<>>
    ELSE IF q[i].priority > PriorityLow
         THEN <<q[i]>> \o flushLowFrom(q, i + 1)
         ELSE flushLowFrom(q, i + 1)

flushLowLocked(q) == flushLowFrom(q, 1)

FlushesAlways(priority) == TRUE

Flushes(priority) == priority >= PriorityNormal

\* Say up to its Unlock.
Say(text, priority) ==
    /\ queued < MaxSay
    /\ queued' = queued + 1
    /\ queue' = Append(IF Flushes(priority) THEN flushLowLocked(queue) ELSE queue,
                       SpeechRequest(text, priority, queued + 1))
    /\ signals' = signals + 1
    /\ UNCHANGED <<notify, speaking, interrupted, mouthPc, item, audioSlots,
                   chunk, active, sounding, interruptPc, interruptAt,
                   returnedAt, cutRequest>>
    /\ MouthFrame

\* Say's send on notify with every send dropped.
SignalDropped ==
    /\ signals > 0
    /\ signals' = signals - 1
    /\ UNCHANGED <<queue, notify, speaking, interrupted, mouthPc, item,
                   audioSlots, chunk, active, sounding, interruptPc, queued,
                   interruptAt, returnedAt, cutRequest>>
    /\ MouthFrame

\* Say's send on notify, dropped when the channel is full.
Signal ==
    /\ signals > 0
    /\ signals' = signals - 1
    /\ notify' = IF notify < NotifyCapacity THEN notify + 1 ELSE notify
    /\ UNCHANGED <<queue, speaking, interrupted, mouthPc, item, audioSlots,
                   chunk, active, sounding, interruptPc, queued, interruptAt,
                   returnedAt, cutRequest>>
    /\ MouthFrame

IsPlayingNever(p) == FALSE

IsPlaying(p) == p \in sounding

\* Interrupt up to its Unlock.
InterruptClear ==
    /\ interruptPc = "idle"
    /\ queue' = <<>>
    /\ interrupted' = TRUE
    /\ interruptPc' = "stop"
    /\ interruptAt' = queued
    /\ cutRequest' = IF /\ Cardinality(splitChunks(item.text)) > 1
                        /\ PlayerOf(item, chunk) \in sounding
                     THEN PlayerOf(item, chunk)
                     ELSE cutRequest
    /\ UNCHANGED <<notify, signals, speaking, mouthPc, item, audioSlots, chunk,
                   active, sounding, queued, returnedAt>>
    /\ MouthFrame

\* Player.Stop, and Interrupt's return.
InterruptStop ==
    /\ interruptPc = "stop"
    /\ sounding' = IF active # NoPlayer THEN sounding \ {active} ELSE sounding
    /\ interruptPc' = "idle"
    /\ returnedAt' = interruptAt
    /\ UNCHANGED <<queue, notify, signals, speaking, interrupted, mouthPc, item,
                   audioSlots, chunk, active, queued, interruptAt, cutRequest>>
    /\ MouthFrame

\* processLoop: a signal received.
Wake ==
    /\ mouthPc = "wait"
    /\ notify > 0
    /\ notify' = notify - 1
    /\ mouthPc' = "clear"
    /\ UNCHANGED <<queue, signals, speaking, interrupted, item, audioSlots,
                   chunk, active, sounding, interruptPc, queued, interruptAt,
                   returnedAt, cutRequest>>
    /\ MouthFrame

\* drain: the top of the loop.
ClearInterrupted ==
    /\ mouthPc = "clear"
    /\ interrupted' = FALSE
    /\ mouthPc' = "dequeue"
    /\ UNCHANGED <<queue, notify, signals, speaking, item, audioSlots, chunk,
                   active, sounding, interruptPc, queued, interruptAt,
                   returnedAt, cutRequest>>
    /\ MouthFrame

RECURSIVE bestIdxLatestFrom(_, _, _)
bestIdxLatestFrom(q, i, best) ==
    IF i > Len(q) THEN best
    ELSE bestIdxLatestFrom(q, i + 1,
                           IF q[i].priority >= q[best].priority THEN i ELSE best)

bestIdxLatest(q) == bestIdxLatestFrom(q, 1, 1)

RECURSIVE bestIdxFrom(_, _, _)
bestIdxFrom(q, i, best) ==
    IF i > Len(q) THEN best
    ELSE bestIdxFrom(q, i + 1,
                     IF q[i].priority > q[best].priority THEN i ELSE best)

bestIdx(q) == bestIdxFrom(q, 1, 1)

Without(q, i) == SubSeq(q, 1, i - 1) \o SubSeq(q, i + 1, Len(q))

Dequeue ==
    /\ mouthPc = "dequeue"
    /\ IF Len(queue) = 0
       THEN /\ mouthPc' = "wait"
            /\ UNCHANGED <<queue, item>>
       ELSE /\ item' = queue[bestIdx(queue)]
            /\ queue' = Without(queue, bestIdx(queue))
            /\ mouthPc' = "mark"
    /\ UNCHANGED <<notify, signals, speaking, interrupted, audioSlots, chunk,
                   active, sounding, interruptPc, queued, interruptAt,
                   returnedAt, cutRequest>>
    /\ MouthFrame

MarkSpeaking ==
    /\ mouthPc = "mark"
    /\ speaking' = TRUE
    /\ mouthPc' = "synth"
    /\ UNCHANGED <<queue, notify, signals, interrupted, item, audioSlots, chunk,
                   active, sounding, interruptPc, queued, interruptAt,
                   returnedAt, cutRequest>>
    /\ MouthFrame

\* process up to its playback: every chunk synthesized, with or without
\* success.
Synthesize(ok) ==
    /\ mouthPc = "synth"
    /\ ok \subseteq splitChunks(item.text)
    /\ audioSlots' = ok
    /\ IF Cardinality(splitChunks(item.text)) <= 1
       THEN IF ok = {}
            THEN mouthPc' = "unmark" /\ chunk' = chunk
            ELSE mouthPc' = "open" /\ chunk' = 1
       ELSE mouthPc' = "check" /\ chunk' = 1
    /\ UNCHANGED <<queue, notify, signals, speaking, interrupted, item, active,
                   sounding, interruptPc, queued, interruptAt, returnedAt,
                   cutRequest>>
    /\ MouthFrame

abortNever == FALSE

\* process: the flag read before a chunk is played.
abort == interrupted

\* process: the playback loop moves to the next chunk that has audio and
\* reads the interrupted flag.
CheckInterrupted ==
    /\ mouthPc = "check"
    /\ LET rest == {c \in audioSlots : c >= chunk}
       IN  IF rest = {}
           THEN mouthPc' = "unmark" /\ chunk' = chunk
           ELSE /\ chunk' = CHOOSE c \in rest : \A d \in rest : c <= d
                /\ mouthPc' = IF abort THEN "unmark" ELSE "open"
    /\ UNCHANGED <<queue, notify, signals, speaking, interrupted, item,
                   audioSlots, active, sounding, interruptPc, queued,
                   interruptAt, returnedAt, cutRequest>>
    /\ MouthFrame

\* Player.Play: the oto player made and stored.
PlayOpen ==
    /\ mouthPc = "open"
    /\ active' = PlayerOf(item, chunk)
    /\ mouthPc' = "start"
    /\ UNCHANGED <<queue, notify, signals, speaking, interrupted, item,
                   audioSlots, chunk, sounding, interruptPc, queued,
                   interruptAt, returnedAt, cutRequest>>
    /\ MouthFrame

\* A playback error after which process gives up the rest of the request
PlayFailsAbandons ==
    /\ mouthPc = "open"
    /\ mouthPc' = "unmark"
    /\ UNCHANGED <<queue, notify, signals, speaking, interrupted, item,
                   audioSlots, chunk, active, sounding, interruptPc, queued,
                   interruptAt, returnedAt, cutRequest>>
    /\ MouthFrame

\* Player.Play returns an error before it has made a player (extractPCM);
\* process and synthAndPlay log it.  An error of player.Close() comes after
\* the audio and leaves the state PlayReturn leaves.
PlayFails ==
    /\ mouthPc = "open"
    /\ IF Cardinality(splitChunks(item.text)) <= 1
       THEN mouthPc' = "unmark" /\ chunk' = chunk
       ELSE mouthPc' = "check" /\ chunk' = chunk + 1
    /\ UNCHANGED <<queue, notify, signals, speaking, interrupted, item,
                   audioSlots, active, sounding, interruptPc, queued,
                   interruptAt, returnedAt, cutRequest>>
    /\ MouthFrame

\* Player.Play: the oto player started.
PlayStart ==
    /\ mouthPc = "start"
    /\ sounding' = sounding \cup {PlayerOf(item, chunk)}
    /\ mouthPc' = "playing"
    /\ UNCHANGED <<queue, notify, signals, speaking, interrupted, item,
                   audioSlots, chunk, active, interruptPc, queued, interruptAt,
                   returnedAt, cutRequest>>
    /\ MouthFrame

\* An oto player reaches the end of its audio.
AudioEnds(p) ==
    /\ p \in sounding
    /\ sounding' = sounding \ {p}
    /\ UNCHANGED <<queue, notify, signals, speaking, interrupted, mouthPc, item,
                   audioSlots, chunk, active, interruptPc, queued, interruptAt,
                   returnedAt, cutRequest>>
    /\ MouthFrame

\* Player.Play: the wait for the player to stop playing, and the return.
PlayReturn ==
    /\ mouthPc = "playing"
    /\ ~IsPlaying(PlayerOf(item, chunk))
    /\ active' = NoPlayer
    /\ IF Cardinality(splitChunks(item.text)) <= 1
       THEN mouthPc' = "unmark" /\ chunk' = chunk
       ELSE mouthPc' = "check" /\ chunk' = chunk + 1
    /\ UNCHANGED <<queue, notify, signals, speaking, interrupted, item,
                   audioSlots, sounding, interruptPc, queued, interruptAt,
                   returnedAt, cutRequest>>
    /\ MouthFrame

\* drain: process has returned.
UnmarkSpeaking ==
    /\ mouthPc = "unmark"
    /\ speaking' = FALSE
    /\ item' = NoRequest
    /\ audioSlots' = {}
    /\ chunk' = 0
    /\ mouthPc' = "clear"
    /\ UNCHANGED <<queue, notify, signals, interrupted, active, sounding,
                   interruptPc, queued, interruptAt, returnedAt, cutRequest>>
    /\ MouthFrame

\* ------------------------------------------- engine, write by write
\* Advance and Skip as the sequence of writes they make through the
\* *Session the store hands out; the engine holds no lock.
NoSession == <<>>

OpIdle ==
    /\ opPc = "idle"
    /\ opSid = ""
    /\ opMark = StepDone
    /\ opBase = NoSession
    /\ opAfter = NoSession

\* MemoryStore.Load: the pointer to the stored session, that is the session
\* as it is now.
Load(sid) == sessions[sid]

OpFrame ==
    UNCHANGED <<recipes, notes, now, horizon, observing, supVars, obsVars,
                mouthVars, earVars, storeVars, sourceVars, watchVars>>

OpReturn ==
    /\ opPc' = "idle"
    /\ opSid' = ""
    /\ opMark' = StepDone
    /\ opBase' = NoSession
    /\ opAfter' = NoSession

\* Advance (mark = StepDone) or Skip (mark = StepSkipped): Load, the status
\* check and recipes.Get.
OpLoad(sid, mark) ==
    /\ opPc = "idle"
    /\ sid \in DOMAIN sessions
    /\ Load(sid).status = SessionActive
    /\ opPc' = "loaded"
    /\ opSid' = sid
    /\ opMark' = mark
    /\ opBase' = Load(sid)
    /\ opAfter' = IF mark = StepDone THEN AdvanceCall(sid).sessions[sid]
                  ELSE SkipCall(sid).sessions[sid]
    /\ UNCHANGED sessions
    /\ OpFrame

\* The current step marked done or skipped.
OpMarkCurrent ==
    /\ opPc = "loaded"
    /\ LET s == Load(opSid)
       IN  /\ sessions' = [sessions EXCEPT
                              ![opSid].stepStates[s.currentStepIndex] = opMark]
           /\ opPc' = IF s.currentStepIndex + 1 >= Len(recipes[s.recipeID])
                      THEN "last" ELSE "marked"
    /\ UNCHANGED <<opSid, opMark, opBase, opAfter>>
    /\ OpFrame

\* Past the last step: the session completed and saved.
OpComplete ==
    /\ opPc = "last"
    /\ sessions' = [sessions EXCEPT ![opSid].status = SessionCompleted]
    /\ OpReturn
    /\ OpFrame

OpMoveIndex ==
    /\ opPc = "marked"
    /\ sessions' = [sessions EXCEPT
                       ![opSid].currentStepIndex = Load(opSid).currentStepIndex + 1]
    /\ opPc' = "moved"
    /\ UNCHANGED <<opSid, opMark, opBase, opAfter>>
    /\ OpFrame

OpActivateNext ==
    /\ opPc = "moved"
    /\ sessions' = [sessions EXCEPT
                       ![opSid].stepStates[Load(opSid).currentStepIndex] = StepActive]
    /\ opPc' = "activated"
    /\ UNCHANGED <<opSid, opMark, opBase, opAfter>>
    /\ OpFrame

\* maybeStartTimer for the new step, and Save.
OpStartTimerAndSave ==
    /\ opPc = "activated"
    /\ LET s == Load(opSid)
       IN  sessions' = [sessions EXCEPT ![opSid].timerStates =
                           MaybeStartTimer(s.timerStates,
                                           StepAt(recipes[s.recipeID],
                                                  s.currentStepIndex))]
    /\ OpReturn
    /\ OpFrame

\* ---------------------------------------------------------------- ear
earDormant == "dormant"
earListening == "listening"
earMuted == "muted"

\* The goroutines that call Mute: Ear.Run itself, at the end of onWakeWord,
\* and the orchestrator, which also calls Unmute.
EarCallers == {"run", "orchestrator"}

EarIdle ==
    /\ state = earDormant
    /\ muted = FALSE
    /\ paused = FALSE
    /\ wakeCh = 0
    /\ earPc = "wait"
    /\ callPc = [who \in EarCallers |-> "idle"]
    /\ curState = [who \in EarCallers |-> earDormant]
    /\ earLog = <<>>

EarFrame ==
    UNCHANGED <<recipes, sessions, notes, now, horizon, supVars,
                observing, obsVars, mouthVars, opVars, storeVars, sourceVars,
                watchVars>>

\* detector.OnDetected: a send on wakeCh that is dropped when one is pending.
Detected ==
    /\ ~paused
    /\ wakeCh = 0
    /\ wakeCh' = 1
    /\ UNCHANGED <<state, muted, paused, earPc, callPc, curState, earLog>>
    /\ EarFrame

\* Run: a detection received from wakeCh.
RunReceive ==
    /\ earPc = "wait"
    /\ wakeCh = 1
    /\ wakeCh' = 0
    /\ earPc' = "isMuted"
    /\ UNCHANGED <<state, muted, paused, callPc, curState, earLog>>
    /\ EarFrame

\* Run: a detection is ignored while muted, else onWakeWord is entered.
RunIsMuted ==
    /\ earPc = "isMuted"
    /\ earPc' = IF muted THEN "wait" ELSE "interrupt"
    /\ earLog' = <<>>
    /\ UNCHANGED <<state, muted, paused, wakeCh, callPc, curState>>
    /\ EarFrame

\* onWakeWord with the filler spoken before the state is set.
onWakeWordFillerFirst(pc) ==
    CASE pc = "interrupt" -> "pause"
      [] pc = "pause" -> "filler"
      [] pc = "filler" -> "listening"
      [] pc = "listening" -> "doListening"

\* onWakeWord: the statement that follows each of its statements.
onWakeWordNext(pc) ==
    CASE pc = "interrupt" -> "pause"
      [] pc = "pause" -> "listening"
      [] pc = "listening" -> "filler"
      [] pc = "filler" -> "doListening"

\* onWakeWord: mouth.Interrupt().
WakeInterrupt ==
    /\ earPc = "interrupt"
    /\ earPc' = onWakeWordNext(earPc)
    /\ earLog' = Append(earLog, "interrupt")
    /\ UNCHANGED <<state, muted, paused, wakeCh, callPc, curState>>
    /\ EarFrame

\* onWakeWord: detector.Pause().
WakePause ==
    /\ earPc = "pause"
    /\ paused' = TRUE
    /\ earPc' = onWakeWordNext(earPc)
    /\ earLog' = Append(earLog, "pause")
    /\ UNCHANGED <<state, muted, wakeCh, callPc, curState>>
    /\ EarFrame

\* onWakeWord: setState(earListening).
WakeListening ==
    /\ earPc = "listening"
    /\ state' = earListening
    /\ earPc' = onWakeWordNext(earPc)
    /\ earLog' = Append(earLog, "listening")
    /\ UNCHANGED <<muted, paused, wakeCh, callPc, curState>>
    /\ EarFrame

\* onWakeWord: mouth.Say(filler, PriorityCritical).
WakeFiller ==
    /\ earPc = "filler"
    /\ earPc' = onWakeWordNext(earPc)
    /\ earLog' = Append(earLog, "filler")
    /\ UNCHANGED <<state, muted, paused, wakeCh, callPc, curState>>
    /\ EarFrame

\* doListening is entered.
ListenBegin ==
    /\ earPc = "doListening"
    /\ earPc' = "capture"
    /\ earLog' = Append(earLog, "doListening")
    /\ UNCHANGED <<state, muted, paused, wakeCh, callPc, curState>>
    /\ EarFrame

\* doListening returns: on every path the state is set dormant first.
ListenEnd(sent) ==
    /\ earPc = "capture"
    /\ state' = earDormant
    /\ earPc' = IF sent THEN "mute" ELSE "resume"
    /\ UNCHANGED <<muted, paused, wakeCh, callPc, curState, earLog>>
    /\ EarFrame

\* onWakeWord, nothing captured: the detector resumed unless muted.
WakeResume ==
    /\ earPc = "resume"
    /\ paused' = IF muted THEN paused ELSE FALSE
    /\ earPc' = "dormant"
    /\ UNCHANGED <<state, muted, wakeCh, callPc, curState, earLog>>
    /\ EarFrame

\* onWakeWord, nothing captured: setState(earDormant).
WakeDormant ==
    /\ earPc = "dormant"
    /\ state' = earDormant
    /\ earPc' = "wait"
    /\ UNCHANGED <<muted, paused, wakeCh, callPc, curState, earLog>>
    /\ EarFrame

\* Mute: the critical section, as it changes the Ear.
MuteLocked(who) ==
    /\ callPc[who] = "idle"
    /\ who = "run" => earPc = "mute"
    /\ muted' = TRUE
    /\ curState' = [curState EXCEPT ![who] = state]
    /\ callPc' = [callPc EXCEPT ![who] = "mutePause"]
    /\ earPc' = IF who = "run" THEN "muting" ELSE earPc
    /\ UNCHANGED <<state, paused, wakeCh, earLog>>

\* Mute: the critical section.
MuteFlag(who) == MuteLocked(who) /\ EarFrame

\* Mute: detector.Pause().
MutePause(who) ==
    /\ callPc[who] = "mutePause"
    /\ paused' = TRUE
    /\ callPc' = [callPc EXCEPT ![who] = "muteSet"]
    /\ UNCHANGED <<state, muted, wakeCh, earPc, curState, earLog>>
    /\ EarFrame

\* Mute: setState(earMuted) unless the state read was listening.
MuteSet(who) ==
    /\ callPc[who] = "muteSet"
    /\ state' = IF curState[who] # earListening THEN earMuted ELSE state
    /\ callPc' = [callPc EXCEPT ![who] = "idle"]
    /\ earPc' = IF who = "run" THEN "wait" ELSE earPc
    /\ UNCHANGED <<muted, paused, wakeCh, curState, earLog>>
    /\ EarFrame

\* Unmute: the critical section, as it changes the Ear.
UnmuteLocked ==
    /\ callPc["orchestrator"] = "idle"
    /\ muted' = FALSE
    /\ curState' = [curState EXCEPT !["orchestrator"] = state]
    /\ callPc' = [callPc EXCEPT !["orchestrator"] =
                     IF state # earListening THEN "unmuteResume" ELSE "idle"]
    /\ UNCHANGED <<state, paused, wakeCh, earPc, earLog>>

\* Unmute: the critical section.
UnmuteFlag == UnmuteLocked /\ EarFrame

\* Unmute: detector.Resume().
UnmuteResume ==
    /\ callPc["orchestrator"] = "unmuteResume"
    /\ paused' = FALSE
    /\ callPc' = [callPc EXCEPT !["orchestrator"] = "unmuteSet"]
    /\ UNCHANGED <<state, muted, wakeCh, earPc, curState, earLog>>
    /\ EarFrame

\* Unmute: setState(earDormant).
UnmuteSet ==
    /\ callPc["orchestrator"] = "unmuteSet"
    /\ state' = earDormant
    /\ callPc' = [callPc EXCEPT !["orchestrator"] = "idle"]
    /\ UNCHANGED <<muted, paused, wakeCh, earPc, curState, earLog>>
    /\ EarFrame

\* The orchestrator wired to the Mouth's start and stop events: the Mouth
\* begins to speak and Mute is called, the Mouth falls idle and Unmute is
\* called, one call after the other.
WiredFrame ==
    UNCHANGED <<recipes, sessions, notes, now, horizon, supVars, observing,
                obsVars, opVars, storeVars, sourceVars, watchVars,
                queue, notify, signals, interrupted, mouthPc, item, audioSlots,
                chunk, active, sounding, interruptPc, queued, interruptAt,
                returnedAt, cutRequest>>

OnSpeakingStarted ==
    /\ ~speaking
    /\ speaking' = TRUE
    /\ MuteLocked("orchestrator")
    /\ WiredFrame

OnSpeakingStopped ==
    /\ speaking
    /\ speaking' = FALSE
    /\ UnmuteLocked
    /\ WiredFrame

\* ------------------------------------------------------- session store
\* The MemoryStore on its own: sessions saved under two ids, in every status.
StoreIds == {"s1", "s2"}

SessionStatuses ==
    {SessionActive, SessionPaused, SessionCompleted, SessionAbandoned}

\* A session object as a caller of Save holds it: Session.ID and the fields
\* the engine gives a session of a recipe of one untimed step.
StoredSession(id, status) ==
    [id |-> id,
     recipeID |-> "r1",
     currentStepIndex |-> 0,
     stepStates |-> [i \in {0} |-> StepActive],
     timerStates |-> <<>>,
     status |-> status]

StoreSessions ==
    {StoredSession(id, status) : id \in StoreIds, status \in SessionStatuses}

\* What a store call returns: its error and the sessions it hands back.
Returned(err, out) == [err |-> err, out |-> out]

\* MemoryStore.Save: s.sessions[session.ID] = session
SaveSession(store, session) ==
    [id \in DOMAIN store \cup {session.id} |->
        IF id = session.id THEN session ELSE store[id]]

\* MemoryStore.Load
LoadSession(store, id) ==
    IF id \notin DOMAIN store
    THEN Returned(ErrNotFound, {})
    ELSE Returned(ErrNone, {store[id]})

\* A Delete that reports success and leaves the entry in the map
DeleteSessionKeepsEntry(store, id) ==
    IF id \notin DOMAIN store
    THEN [err |-> ErrNotFound, store |-> store]
    ELSE [err |-> ErrNone, store |-> store]

\* MemoryStore.Delete
DeleteSession(store, id) ==
    IF id \notin DOMAIN store
    THEN [err |-> ErrNotFound, store |-> store]
    ELSE [err |-> ErrNone,
          store |-> [i \in DOMAIN store \ {id} |-> store[i]]]

\* MemoryStore.ListActive; the order of the slice is the map's iteration
\* order, so the result is taken as a set.
ListActiveSessions(store) ==
    {store[id] : id \in {i \in DOMAIN store :
                            \/ store[i].status = SessionActive
                            \/ store[i].status = SessionPaused}}

StoreIdle ==
    /\ stOp = "none"
    /\ stArg = ""
    /\ stErr = ErrNone
    /\ stOut = {}

StoreFrame ==
    UNCHANGED <<recipes, notes, now, horizon, supVars, observing, obsVars,
                mouthVars, opVars, earVars, sourceVars, watchVars>>

StoreSave(session) ==
    /\ sessions' = SaveSession(sessions, session)
    /\ stOp' = "save"
    /\ stArg' = session.id
    /\ stErr' = ErrNone
    /\ stOut' = {}
    /\ StoreFrame

StoreLoad(id) ==
    /\ stOp' = "load"
    /\ stArg' = id
    /\ stErr' = LoadSession(sessions, id).err
    /\ stOut' = LoadSession(sessions, id).out
    /\ UNCHANGED sessions
    /\ StoreFrame

StoreDelete(id) ==
    /\ sessions' = DeleteSession(sessions, id).store
    /\ stOp' = "delete"
    /\ stArg' = id
    /\ stErr' = DeleteSession(sessions, id).err
    /\ stOut' = {}
    /\ StoreFrame

StoreListActive ==
    /\ stOp' = "list"
    /\ stArg' = ""
    /\ stErr' = ErrNone
    /\ stOut' = ListActiveSessions(sessions)
    /\ UNCHANGED sessions
    /\ StoreFrame

\* ------------------------------------------------------- recipe source
\* A recipe object as a caller of Update holds it: Recipe.ID, Recipe.Version
\* and Recipe.Steps.
RecipeObject(id, version, steps) ==
    [id |-> id, version |-> version, steps |-> steps]

NoRecipe == RecipeObject("", 0, <<>>)

PassedRecipes ==
    {RecipeObject(id, version, steps) :
        id \in RecipeIds \cup {UnknownRecipe},
        version \in 0..MaxVersion,
        steps \in {<<Step(1, 0)>>, <<Step(1, 0), Step(2, 0)>>}}

\* MemorySource.Update: recipe.Version++ on the object passed, which then
\* replaces the entry.
UpdateCall(recipe) ==
    IF recipe.id \notin DOMAIN recipes
    THEN [err |-> ErrNotFound, recipes |-> recipes, versions |-> versions]
    ELSE [err |-> ErrNone,
          recipes |-> [recipes EXCEPT ![recipe.id] = recipe.steps],
          versions |-> [versions EXCEPT ![recipe.id] = recipe.version + 1]]

SourceIdle ==
    /\ versions = [r \in RecipeIds |-> 0]
    /\ updArg = NoRecipe
    /\ updErr = ErrNone
    /\ updCount = 0

SourceFrame ==
    UNCHANGED <<sessions, notes, now, horizon, supVars, observing, obsVars,
                mouthVars, opVars, earVars, storeVars, watchVars>>

Update(recipe) ==
    /\ updCount < MaxUpdates
    /\ recipes' = UpdateCall(recipe).recipes
    /\ versions' = UpdateCall(recipe).versions
    /\ updErr' = UpdateCall(recipe).err
    /\ updArg' = recipe
    /\ updCount' = updCount + 1
    /\ SourceFrame

\* ------------------------------------------------------------- watcher
\* Watcher.buildMessage: which message it builds ("" for none), from the
\* session, the step's expected Duration and the time spent on the step.
buildMessage(session, duration, onStepFor) ==
    IF session.status = SessionPaused THEN "paused"
    ELSE IF \E k \in DOMAIN session.timerStates :
                session.timerStates[k].status = TimerFired
    THEN "fired"
    ELSE IF duration > 0 /\ onStepFor > duration * 2 THEN "over"
    ELSE IF duration = 0 /\ onStepFor > ManualStepLimit THEN "still"
    ELSE ""

\* Watcher.inspect: the message it hands to notifier.Notify ("" for none)
inspect(sid, duration, onStepFor) ==
    LET session == sessions[sid]
    IN IF session.recipeID \notin DOMAIN recipes THEN ""
       ELSE IF session.currentStepIndex >= Len(recipes[session.recipeID])
       THEN ""
       ELSE buildMessage(session, duration, onStepFor)

WatchIdle ==
    /\ watchPc = "idle"
    /\ watchList = {}
    /\ watchListed = {}
    /\ watchCount = [sid \in SessionIds |-> 0]

WatchFrame ==
    UNCHANGED <<recipes, notes, now, horizon, supVars, observing, obsVars,
                mouthVars, opVars, earVars, storeVars, sourceVars>>

\* Run: the ticker fires; check() lists the sessions
WatchCheck ==
    /\ watchPc = "idle"
    /\ watchList' = ListActive
    /\ watchListed' = ListActive
    /\ watchCount' = [sid \in SessionIds |-> 0]
    /\ watchPc' = "check"
    /\ UNCHANGED sessions
    /\ WatchFrame

\* An inspect that moves the session it visits on to its next step
WatchInspectTouching(sid, duration, onStepFor) ==
    /\ watchPc = "check"
    /\ sid \in watchList
    /\ watchList' = watchList \ {sid}
    /\ watchCount' = [watchCount EXCEPT ![sid] =
                         @ + (IF inspect(sid, duration, onStepFor) = ""
                              THEN 0 ELSE 1)]
    /\ sessions' = [sessions EXCEPT ![sid].currentStepIndex = @ + 1]
    /\ UNCHANGED <<watchPc, watchListed>>
    /\ WatchFrame

\* check(): inspect of the next session of the list
WatchInspect(sid, duration, onStepFor) ==
    /\ watchPc = "check"
    /\ sid \in watchList
    /\ watchList' = watchList \ {sid}
    /\ watchCount' = [watchCount EXCEPT ![sid] =
                         @ + (IF inspect(sid, duration, onStepFor) = ""
                              THEN 0 ELSE 1)]
    /\ UNCHANGED <<sessions, watchPc, watchListed>>
    /\ WatchFrame

\* check(): all sessions of the list inspected
WatchEnd ==
    /\ watchPc = "check"
    /\ watchList = {}
    /\ watchPc' = "idle"
    /\ UNCHANGED <<sessions, watchList, watchListed, watchCount>>
    /\ WatchFrame

\* ------------------------------------------------------------- applier
\* fmt.Sprintf("step-%d", n): the id addStep gives a new step.  The ids of
\* the seeded steps ("ca-1", "vsf-1", ...) are the numbers below StepIdBase.
StepIdBase == 10
AddedStepID(n) == StepIdBase + n

ErrApply == "apply"

ActionAddStep == "add_step"
ActionRemoveStep == "remove_step"
ActionUpdateStep == "update_step"
ActionUpdateTimer == "update_timer"

\* gpt.Action: its type, its 1-based StepIndex and its parsed timer duration
Action(type, stepIndex, duration) ==
    [type |-> type, stepIndex |-> stepIndex, duration |-> duration]

\* The actions of the model: a step added at the front or at the end, the
\* first step or the step numbered MaxRecipeLen removed, the first step
\* rewritten, and its timer set to a duration of 0 or 1.
Actions ==
    {Action(ActionAddStep, i, 0) : i \in 0..1}
    \cup {Action(ActionRemoveStep, i, 0) : i \in {1, MaxRecipeLen}}
    \cup {Action(ActionUpdateStep, 1, 0)}
    \cup {Action(ActionUpdateTimer, 1, d) : d \in 0..1}

ActionLists ==
    UNION {[1..n -> Actions] : n \in 1..MaxActions}

Applied(err, steps) == [err |-> err, steps |-> steps]

\* updateStep: only the instruction changes, which a Step of the model does
\* not carry
updateStep(steps, act) ==
    LET idx == act.stepIndex - 1
    IN IF idx < 0 \/ idx >= Len(steps) THEN Applied(ErrApply, steps)
       ELSE Applied(ErrNone, steps)

removeStep(steps, act) ==
    LET idx == act.stepIndex - 1
    IN IF idx < 0 \/ idx >= Len(steps) THEN Applied(ErrApply, steps)
       ELSE Applied(ErrNone, Without(steps, idx + 1))

addStep(steps, act) ==
    LET idx == IF act.stepIndex - 1 < 0 \/ act.stepIndex - 1 > Len(steps)
               THEN Len(steps) ELSE act.stepIndex - 1
    IN Applied(ErrNone,
               SubSeq(steps, 1, idx)
                   \o <<Step(AddedStepID(Len(steps) + 1), 0)>>
                   \o SubSeq(steps, idx + 1, Len(steps)))

updateTimer(steps, act) ==
    LET idx == act.stepIndex - 1
    IN IF idx < 0 \/ idx >= Len(steps) THEN Applied(ErrApply, steps)
       ELSE IF act.duration <= 0 THEN Applied(ErrApply, steps)
       ELSE Applied(ErrNone, [steps EXCEPT ![idx + 1].timer = act.duration])

applyOne(steps, act) ==
    CASE act.type = ActionUpdateStep -> updateStep(steps, act)
      [] act.type = ActionRemoveStep -> removeStep(steps, act)
      [] act.type = ActionAddStep -> addStep(steps, act)
      [] act.type = ActionUpdateTimer -> updateTimer(steps, act)
      [] OTHER -> Applied(ErrApply, steps)

\* ApplyActions: the actions applied in place, one after the other, up to
\* the first that fails
RECURSIVE ApplyActionsFrom(_, _, _)
ApplyActionsFrom(steps, actions, i) ==
    IF i > Len(actions) THEN Applied(ErrNone, steps)
    ELSE LET one == applyOne(steps, actions[i])
         IN IF one.err # ErrNone THEN one
            ELSE ApplyActionsFrom(one.steps, actions, i + 1)

ApplyActions(steps, actions) == ApplyActionsFrom(steps, actions, 1)

\* cliApp.modifyRequest from ApplyActions on: the recipe is the object Get
\* returned, which is the one the source holds, so what ApplyActions did to
\* it is in the source whether or not UpdateRecipe follows.
modifyRequest(id, actions) ==
    /\ updCount < MaxUpdates
    /\ LET applied == ApplyActions(recipes[id], actions)
           recipe == RecipeObject(id, versions[id], applied.steps)
       IN /\ Len(applied.steps) <= MaxRecipeLen
          /\ IF applied.err # ErrNone
             THEN /\ recipes' = [recipes EXCEPT ![id] = applied.steps]
                  /\ UNCHANGED sourceVars
             ELSE /\ recipes' = UpdateCall(recipe).recipes
                  /\ versions' = UpdateCall(recipe).versions
                  /\ updErr' = UpdateCall(recipe).err
                  /\ updArg' = recipe
                  /\ updCount' = updCount + 1
    /\ SourceFrame

\* Engine.StartSession, Advance and Skip index recipe.Steps and the step
\* states with the same numbers; where the step or the step state is missing
\* the call panics and the session is left as it was.
StartSessionPanics(recipeID) == Len(recipes[recipeID]) = 0

MovePanics(sid) ==
    /\ sid \in DOMAIN sessions
    /\ sessions[sid].status = SessionActive
    /\ LET s == sessions[sid]
           nextIdx == s.currentStepIndex + 1
       IN \/ s.currentStepIndex \notin DOMAIN s.stepStates
          \/ /\ nextIdx < Len(recipes[s.recipeID])
             /\ nextIdx \notin DOMAIN s.stepStates

StartSessionReturns(recipeID) ==
    /\ ~StartSessionPanics(recipeID)
    /\ StartSession(recipeID)

AdvanceReturns(sid) == ~MovePanics(sid) /\ Advance(sid)

SkipReturns(sid) == ~MovePanics(sid) /\ Skip(sid)

\* ------------------------------------------------------------- system
Init ==
    /\ recipes \in [RecipeIds -> RecipeSet]
    /\ sessions = <<>>
    /\ notes = <<>>
    /\ now = 0
    /\ horizon = MaxNow
    /\ supPc = "idle"
    /\ supList = {}
    /\ supSid = ""
    /\ supNow = ZeroTime
    /\ supChanged = FALSE
    /\ supKeys = {}
    /\ supSeen = {}
    /\ supTimer = UnknownTimer
    /\ observing = FALSE
    /\ tickBase = NoBase
    /\ tickDisturbed = {}
    /\ pauseBase = <<>>
    /\ MouthIdle
    /\ OpIdle
    /\ EarIdle
    /\ StoreIdle
    /\ SourceIdle
    /\ WatchIdle

Engine ==
    \/ \E r \in RecipeIds \cup {UnknownRecipe} : StartSession(r)
    \/ \E sid \in SessionIds : Advance(sid)
    \/ \E sid \in SessionIds : Skip(sid)
    \/ \E sid \in SessionIds : Pause(sid)
    \/ \E sid \in SessionIds : Resume(sid)
    \/ \E sid \in SessionIds : Abandon(sid)
    \/ \E sid \in SessionIds : StartPendingTimers(sid)
    \/ \E sid \in SessionIds, k \in TimerIds : DismissTimer(sid, k)

Supervisor ==
    \/ TickBegin
    \/ \E sid \in SessionIds : ProcessSession(sid)
    \/ \E k \in TimerIds : Loop1Visit(k)
    \/ CountDown
    \/ Loop1End
    \/ \E k \in TimerIds : Loop2Visit(k)
    \/ Escalate
    \/ Loop2End
    \/ TickEnd

Next == Engine \/ Supervisor

Spec == Init /\ [][Next]_vars

\* One-step recipes, followed for longer: a fired timer through all its
\* escalation levels.
InitLong ==
    /\ recipes \in [RecipeIds -> {r \in RecipeSet : Len(r) = 1}]
    /\ sessions = <<>>
    /\ notes = <<>>
    /\ now = 0
    /\ horizon = MaxNowLong
    /\ supPc = "idle"
    /\ supList = {}
    /\ supSid = ""
    /\ supNow = ZeroTime
    /\ supChanged = FALSE
    /\ supKeys = {}
    /\ supSeen = {}
    /\ supTimer = UnknownTimer
    /\ observing = FALSE
    /\ tickBase = NoBase
    /\ tickDisturbed = {}
    /\ pauseBase = <<>>
    /\ MouthIdle
    /\ OpIdle
    /\ EarIdle
    /\ StoreIdle
    /\ SourceIdle
    /\ WatchIdle

SpecLong == InitLong /\ [][Next]_vars

\* The same system as Spec with the observers recording.
InitObserved ==
    /\ recipes \in [RecipeIds -> RecipeSet]
    /\ sessions = <<>>
    /\ notes = <<>>
    /\ now = 0
    /\ horizon = MaxNow
    /\ supPc = "idle"
    /\ supList = {}
    /\ supSid = ""
    /\ supNow = ZeroTime
    /\ supChanged = FALSE
    /\ supKeys = {}
    /\ supSeen = {}
    /\ supTimer = UnknownTimer
    /\ observing = TRUE
    /\ tickBase = NoBase
    /\ tickDisturbed = {}
    /\ pauseBase = <<>>
    /\ MouthIdle
    /\ OpIdle
    /\ EarIdle
    /\ StoreIdle
    /\ SourceIdle
    /\ WatchIdle

SpecObserved == InitObserved /\ [][Next]_vars

\* The system of SpecLong with a ticker that never stops and a supervisor
\* goroutine that keeps being scheduled; the application may stop calling
\* the engine at any time.
NextFair == Next \/ TickPastHorizon

SpecFair ==
    InitLong /\ [][NextFair]_vars /\ WF_vars(Supervisor \/ TickPastHorizon)

\* The Mouth alone: callers of Say and Interrupt, the processLoop goroutine
\* and the audio device; no session.
InitMouth ==
    /\ recipes = [r \in RecipeIds |-> <<Step(1, 0)>>]
    /\ sessions = <<>>
    /\ notes = <<>>
    /\ now = 0
    /\ horizon = 0
    /\ supPc = "idle"
    /\ supList = {}
    /\ supSid = ""
    /\ supNow = ZeroTime
    /\ supChanged = FALSE
    /\ supKeys = {}
    /\ supSeen = {}
    /\ supTimer = UnknownTimer
    /\ observing = FALSE
    /\ tickBase = NoBase
    /\ tickDisturbed = {}
    /\ pauseBase = <<>>
    /\ MouthIdle
    /\ OpIdle
    /\ EarIdle
    /\ StoreIdle
    /\ SourceIdle
    /\ WatchIdle

Callers ==
    \/ \E text \in Texts, priority \in Priorities : Say(text, priority)
    \/ Signal
    \/ InterruptClear
    \/ InterruptStop

ProcessLoop ==
    \/ Wake
    \/ ClearInterrupted
    \/ Dequeue
    \/ MarkSpeaking
    \/ \E ok \in SUBSET Texts : Synthesize(ok)
    \/ CheckInterrupted
    \/ PlayOpen
    \/ PlayStart
    \/ PlayReturn
    \/ UnmarkSpeaking

Device == \E p \in sounding : AudioEnds(p)

NextMouth == Callers \/ ProcessLoop \/ Device

SpecMouth == InitMouth /\ [][NextMouth]_vars

\* The goroutines keep being scheduled, a call of Say or Interrupt that has
\* begun returns, and audio that plays comes to its end.
SpecMouthFair ==
    /\ SpecMouth
    /\ WF_vars(ProcessLoop)
    /\ WF_vars(Device)
    /\ WF_vars(Signal)
    /\ WF_vars(InterruptStop)

\* The Mouth with playback that can fail.
NextMouthErrors == NextMouth \/ PlayFails

SpecMouthErrors == InitMouth /\ [][NextMouthErrors]_vars

SpecMouthErrorsFair ==
    /\ SpecMouthErrors
    /\ WF_vars(ProcessLoop)
    /\ WF_vars(Device)
    /\ WF_vars(Signal)
    /\ WF_vars(InterruptStop)

\* The Mouth called from one goroutine only, as handleIntent does: first
\* Interrupt, then Say, each call begun after the one before has returned.
HandleIntentSay(text, priority) ==
    /\ interruptPc = "idle"
    /\ signals = 0
    /\ Say(text, priority)

HandleIntentInterrupt ==
    /\ signals = 0
    /\ InterruptClear

NextMouthOneCaller ==
    \/ \E text \in Texts, priority \in Priorities : HandleIntentSay(text, priority)
    \/ Signal
    \/ HandleIntentInterrupt
    \/ InterruptStop
    \/ ProcessLoop
    \/ Device

SpecMouthOneCaller == InitMouth /\ [][NextMouthOneCaller]_vars

\* The engine with Advance and Skip taken write by write, next to the
\* operations another goroutine may run on the same session meanwhile.
OpSteps ==
    \/ \E sid \in SessionIds, mark \in {StepDone, StepSkipped} : OpLoad(sid, mark)
    \/ OpMarkCurrent
    \/ OpComplete
    \/ OpMoveIndex
    \/ OpActivateNext
    \/ OpStartTimerAndSave

Concurrent ==
    \/ \E r \in RecipeIds : StartSession(r)
    \/ \E sid \in SessionIds : StartPendingTimers(sid)
    \/ \E sid \in SessionIds, k \in TimerIds : DismissTimer(sid, k)

NextSteps == OpSteps \/ Concurrent

SpecSteps == Init /\ [][NextSteps]_vars

\* The Ear alone: the detector, the Run goroutine and the orchestrator that
\* calls Mute and Unmute; the Mouth is what Run calls on it.
InitEar ==
    /\ recipes = [r \in RecipeIds |-> <<Step(1, 0)>>]
    /\ sessions = <<>>
    /\ notes = <<>>
    /\ now = 0
    /\ horizon = 0
    /\ supPc = "idle"
    /\ supList = {}
    /\ supSid = ""
    /\ supNow = ZeroTime
    /\ supChanged = FALSE
    /\ supKeys = {}
    /\ supSeen = {}
    /\ supTimer = UnknownTimer
    /\ observing = FALSE
    /\ tickBase = NoBase
    /\ tickDisturbed = {}
    /\ pauseBase = <<>>
    /\ MouthIdle
    /\ OpIdle
    /\ EarIdle
    /\ StoreIdle
    /\ SourceIdle
    /\ WatchIdle

EarRun ==
    \/ RunReceive
    \/ RunIsMuted
    \/ WakeInterrupt
    \/ WakePause
    \/ WakeListening
    \/ WakeFiller
    \/ ListenBegin
    \/ \E sent \in BOOLEAN : ListenEnd(sent)
    \/ WakeResume
    \/ WakeDormant

EarCalls ==
    \/ \E who \in EarCallers : MuteFlag(who)
    \/ \E who \in EarCallers : MutePause(who)
    \/ \E who \in EarCallers : MuteSet(who)
    \/ UnmuteFlag
    \/ UnmuteResume
    \/ UnmuteSet

NextEar == Detected \/ EarRun \/ EarCalls

SpecEar == InitEar /\ [][NextEar]_vars

\* The Ear with Mute and Unmute called on the Mouth's events only, and by
\* onWakeWord itself.
EarReturns ==
    \/ MuteFlag("run")
    \/ \E who \in EarCallers : MutePause(who)
    \/ \E who \in EarCallers : MuteSet(who)
    \/ UnmuteResume
    \/ UnmuteSet

NextEarWired ==
    \/ Detected
    \/ EarRun
    \/ EarReturns
    \/ OnSpeakingStarted
    \/ OnSpeakingStopped

SpecEarWired == InitEar /\ [][NextEarWired]_vars

\* Run keeps being scheduled and doListening returns, a call of Mute or
\* Unmute that has begun returns, and the Mouth that speaks falls idle.  The
\* Mouth is not bound to begin to speak.
SpecEarWiredFair ==
    /\ SpecEarWired
    /\ WF_vars(EarRun)
    /\ WF_vars(EarReturns)
    /\ WF_vars(OnSpeakingStopped)

\* The MemoryStore called with every session and every id.
InitStore ==
    /\ recipes = [r \in RecipeIds |-> <<Step(1, 0)>>]
    /\ sessions = <<>>
    /\ notes = <<>>
    /\ now = 0
    /\ horizon = 0
    /\ supPc = "idle"
    /\ supList = {}
    /\ supSid = ""
    /\ supNow = ZeroTime
    /\ supChanged = FALSE
    /\ supKeys = {}
    /\ supSeen = {}
    /\ supTimer = UnknownTimer
    /\ observing = FALSE
    /\ tickBase = <<>>
    /\ tickDisturbed = {}
    /\ pauseBase = <<>>
    /\ MouthIdle
    /\ OpIdle
    /\ EarIdle
    /\ StoreIdle
    /\ SourceIdle
    /\ WatchIdle

NextStore ==
    \/ \E session \in StoreSessions : StoreSave(session)
    \/ \E id \in StoreIds : StoreLoad(id)
    \/ \E id \in StoreIds : StoreDelete(id)
    \/ StoreListActive

SpecStore == InitStore /\ [][NextStore]_vars

\* The MemorySource called with recipes of every version, known and unknown.
InitSource ==
    /\ recipes = [r \in RecipeIds |-> <<Step(1, 0)>>]
    /\ sessions = <<>>
    /\ notes = <<>>
    /\ now = 0
    /\ horizon = 0
    /\ supPc = "idle"
    /\ supList = {}
    /\ supSid = ""
    /\ supNow = ZeroTime
    /\ supChanged = FALSE
    /\ supKeys = {}
    /\ supSeen = {}
    /\ supTimer = UnknownTimer
    /\ observing = FALSE
    /\ tickBase = <<>>
    /\ tickDisturbed = {}
    /\ pauseBase = <<>>
    /\ MouthIdle
    /\ OpIdle
    /\ EarIdle
    /\ StoreIdle
    /\ SourceIdle
    /\ WatchIdle

NextSource == \E recipe \in PassedRecipes : Update(recipe)

SpecSource == InitSource /\ [][NextSource]_vars

\* Engine, supervisor and watcher on a recipe of a timed and an untimed step.
InitWatch ==
    /\ recipes = [r \in RecipeIds |-> <<Step(1, 1), Step(2, 0)>>]
    /\ sessions = <<>>
    /\ notes = <<>>
    /\ now = 0
    /\ horizon = MaxNow
    /\ supPc = "idle"
    /\ supList = {}
    /\ supSid = ""
    /\ supNow = ZeroTime
    /\ supChanged = FALSE
    /\ supKeys = {}
    /\ supSeen = {}
    /\ supTimer = UnknownTimer
    /\ observing = FALSE
    /\ tickBase = <<>>
    /\ tickDisturbed = {}
    /\ pauseBase = <<>>
    /\ MouthIdle
    /\ OpIdle
    /\ EarIdle
    /\ StoreIdle
    /\ SourceIdle
    /\ WatchIdle

Watcher ==
    \/ WatchCheck
    \/ \E sid \in SessionIds, duration \in 0..MaxDur, onStepFor \in 0..MaxOnStep :
          WatchInspect(sid, duration, onStepFor)
    \/ WatchEnd

NextWatch == Engine \/ Supervisor \/ Watcher

SpecWatch == InitWatch /\ [][NextWatch]_vars

\* The engine on a recipe that the applier changes meanwhile, one action at
\* a time.
InitModify ==
    /\ recipes = [r \in RecipeIds |-> <<Step(1, 1), Step(2, 0)>>]
    /\ sessions = <<>>
    /\ notes = <<>>
    /\ now = 0
    /\ horizon = 0
    /\ supPc = "idle"
    /\ supList = {}
    /\ supSid = ""
    /\ supNow = ZeroTime
    /\ supChanged = FALSE
    /\ supKeys = {}
    /\ supSeen = {}
    /\ supTimer = UnknownTimer
    /\ observing = FALSE
    /\ tickBase = <<>>
    /\ tickDisturbed = {}
    /\ pauseBase = <<>>
    /\ MouthIdle
    /\ OpIdle
    /\ EarIdle
    /\ StoreIdle
    /\ SourceIdle
    /\ WatchIdle

NextModify ==
    \/ \E r \in RecipeIds : StartSessionReturns(r)
    \/ \E sid \in SessionIds : AdvanceReturns(sid)
    \/ \E sid \in SessionIds : SkipReturns(sid)
    \/ \E r \in RecipeIds, act \in Actions : modifyRequest(r, <<act>>)

SpecModify == InitModify /\ [][NextModify]_vars

\* The applier alone, with every list of actions.
NextApply ==
    \E r \in RecipeIds, actions \in ActionLists : modifyRequest(r, actions)

SpecApply == InitModify /\ [][NextApply]_vars

\* ------------------------------------------------------------- claims
ActiveSteps(s) == {i \in DOMAIN s.stepStates : s.stepStates[i] = StepActive}

\* C1: a session whose status is active or paused has exactly one step state
\* with status active.
C1_ExactlyOneActiveStep ==
    \A sid \in DOMAIN sessions :
        sessions[sid].status \in {SessionActive, SessionPaused}
            => Cardinality(ActiveSteps(sessions[sid])) = 1

\* a paused session that has advanced to its second step, where a tick has
\* fired a timer
C1_Witness ==
    \E sid \in DOMAIN sessions :
        /\ sessions[sid].status = SessionPaused
        /\ sessions[sid].currentStepIndex = 1
        /\ ActiveSteps(sessions[sid]) = {1}
        /\ \E k \in DOMAIN sessions[sid].timerStates :
               sessions[sid].timerStates[k].status = TimerFired

\* C2: while a session is paused no step of a supervisor tick changes it:
\* no timer's remaining or status changes and no notification is emitted for
\* one of its timers, whatever the interleaving of the tick with the pause.
C2_PausedSessionUntouchedByTick ==
    [][\A sid \in DOMAIN sessions :
          (Supervisor /\ sessions[sid].status = SessionPaused)
              => /\ sessions'[sid] = sessions[sid]
                 /\ \A k \in TimerIds :
                        NotesOf(notes', sid, k) = NotesOf(notes, sid, k)]_vars

Max(a, b) == IF a >= b THEN a ELSE b

\* the tick has processed every session of its list
TickDone == supPc = "tick" /\ supList = {}

\* the timers that were running in an active session as the tick began and
\* that no engine call paused, dismissed or took out of its active session
\* during the tick
Undisturbed == DOMAIN tickBase.remaining \ tickDisturbed

\* C3: a tick of interval TickInterval takes the remaining r of a running
\* timer of an active session to max(0, r - TickInterval) (so n ticks take
\* it to max(0, initial - n * TickInterval)); when that is 0 the timer is
\* fired with escalationLevel >= 1, otherwise it is still running.
C3_RemainingAfterTick ==
    TickDone =>
        \A key \in Undisturbed :
            LET ts == sessions[key[1]].timerStates[key[2]]
            IN /\ ts.remaining = Max(0, tickBase.remaining[key] - TickInterval)
               /\ ts.remaining = 0 => ts.status = TimerFired /\ ts.escalationLevel >= 1
               /\ ts.remaining > 0 => ts.status = TimerRunning

\* a second tick has clamped a remaining of 1 to 0 and fired the timer
C3_Witness ==
    /\ TickDone
    /\ \E key \in Undisturbed :
          /\ tickBase.remaining[key] = 1
          /\ sessions[key[1]].timerStates[key[2]].duration > TickInterval
          /\ sessions[key[1]].timerStates[key[2]].remaining = 0
          /\ sessions[key[1]].timerStates[key[2]].status = TimerFired

\* the notifications timer `key` has had since the tick began
NotedInTick(key) ==
    LET all == NotesOf(notes, key[1], key[2])
        before == IF key \in DOMAIN tickBase.noted THEN tickBase.noted[key] ELSE 0
    IN SubSeq(all, before + 1, Len(all))

\* C4: the tick that brings a running timer's remaining to 0 emits exactly
\* one notification for it, urgent and with the level-0 message, and leaves
\* the timer fired with remaining 0 and escalationLevel 1.
C4_OneUrgentNotificationOnFiring ==
    TickDone =>
        \A key \in Undisturbed :
            tickBase.remaining[key] <= TickInterval =>
                LET ts == sessions[key[1]].timerStates[key[2]]
                    new == NotedInTick(key)
                IN /\ Len(new) = 1
                   /\ new[1].urgent
                   /\ new[1].text = EscalationMessage(0)
                   /\ ts.status = TimerFired
                   /\ ts.remaining = 0
                   /\ ts.escalationLevel = 1

\* a tick has fired a timer that had earlier notifications (its almost-done
\* warning) and has finished its second loop
C4_Witness ==
    /\ TickDone
    /\ \E key \in Undisturbed :
          /\ tickBase.remaining[key] <= TickInterval
          /\ key \in DOMAIN tickBase.noted
          /\ tickBase.noted[key] >= 1
          /\ Len(NotesOf(notes, key[1], key[2])) = tickBase.noted[key] + 1
          /\ sessions[key[1]].timerStates[key[2]].status = TimerFired

\* a notification of the firing or of an escalation level
IsFiringNote(note) == note.text \in {EscalationMessage(l) : l \in 0..MaxEscalation}

FiringNotes(sid, k) == SelectSeq(NotesOf(notes, sid, k), IsFiringNote)

\* C5: a timer gets at most 1 + MaxEscalation firing notifications: the
\* i-th carries the message of level i - 1 (the first is the urgent one),
\* consecutive ones are at least NotifyCooldown apart, their number is the
\* timer's escalationLevel, and so a timer whose level exceeds MaxEscalation
\* gets none.
C5_EscalationBoundedAndSpaced ==
    \A sid \in DOMAIN sessions :
        \A k \in DOMAIN sessions[sid].timerStates :
            LET fs == FiringNotes(sid, k)
            IN /\ Len(fs) = sessions[sid].timerStates[k].escalationLevel
               /\ Len(fs) <= 1 + MaxEscalation
               /\ \A i \in 1..Len(fs) :
                      /\ fs[i].text = EscalationMessage(i - 1)
                      /\ fs[i].urgent = (i = 1)
               /\ \A i \in 2..Len(fs) : fs[i].at - fs[i - 1].at >= NotifyCooldown

\* all 1 + MaxEscalation notifications are out, and a whole tick later than
\* the cooldown has passed over the fired timer of the active session
\* without another
C5_Witness ==
    /\ supPc = "idle"
    /\ \E sid \in DOMAIN sessions :
          /\ sessions[sid].status = SessionActive
          /\ \E k \in DOMAIN sessions[sid].timerStates :
                LET ts == sessions[sid].timerStates[k]
                IN /\ ts.status = TimerFired
                   /\ ts.escalationLevel = MaxEscalation + 1
                   /\ Len(FiringNotes(sid, k)) = 1 + MaxEscalation
                   /\ now - ts.lastNotified >= NotifyCooldown

LastIndex(s) == Len(recipes[s.recipeID]) - 1

\* C6: on an active session at its last step, advance (skip) marks the step
\* done (skipped), completes the session and returns no-more-steps; on an
\* earlier step it returns the next step, which becomes the current one,
\* and the session stays active.
C6_AdvancePastLastStepCompletes ==
    \A sid \in DOMAIN sessions :
        sessions[sid].status = SessionActive =>
            LET s == sessions[sid]
                i == s.currentStepIndex
                a == AdvanceCall(sid)
                k == SkipCall(sid)
            IN IF i = LastIndex(s)
               THEN /\ a.err = ErrNoMoreSteps
                    /\ a.sessions[sid].status = SessionCompleted
                    /\ a.sessions[sid].stepStates[i] = StepDone
                    /\ k.err = ErrNoMoreSteps
                    /\ k.sessions[sid].status = SessionCompleted
                    /\ k.sessions[sid].stepStates[i] = StepSkipped
               ELSE /\ a.err = ErrNone
                    /\ a.val = StepAt(recipes[s.recipeID], i + 1).id
                    /\ a.sessions[sid].status = SessionActive
                    /\ a.sessions[sid].currentStepIndex = i + 1
                    /\ a.sessions[sid].stepStates[i] = StepDone
                    /\ k.err = ErrNone
                    /\ k.val = StepAt(recipes[s.recipeID], i + 1).id
                    /\ k.sessions[sid].status = SessionActive
                    /\ k.sessions[sid].currentStepIndex = i + 1
                    /\ k.sessions[sid].stepStates[i] = StepSkipped

\* a two-step session completed by skipping its last step after advancing
\* over the first
C6_Witness ==
    \E sid \in DOMAIN sessions :
        /\ sessions[sid].status = SessionCompleted
        /\ sessions[sid].currentStepIndex = 1
        /\ LastIndex(sessions[sid]) = 1
        /\ sessions[sid].stepStates[0] = StepDone
        /\ sessions[sid].stepStates[1] = StepSkipped

\* C7: advance and skip on a session that is not active return
\* session-not-active and leave the store, hence the whole session, as it
\* was.
C7_NotActiveRejected ==
    \A sid \in DOMAIN sessions :
        sessions[sid].status # SessionActive =>
            /\ AdvanceCall(sid).err = ErrSessionNotActive
            /\ AdvanceCall(sid).sessions = sessions
            /\ SkipCall(sid).err = ErrSessionNotActive
            /\ SkipCall(sid).sessions = sessions

\* a paused session at its first of two steps, holding a paused timer
C7_Witness ==
    \E sid \in DOMAIN sessions :
        /\ sessions[sid].status = SessionPaused
        /\ sessions[sid].currentStepIndex = 0
        /\ LastIndex(sessions[sid]) = 1
        /\ \E k \in DOMAIN sessions[sid].timerStates :
               sessions[sid].timerStates[k].status = TimerPaused

\* C8: when resume follows pause with no other engine operation in between
\* (supervisor ticks allowed), the session is active again and every timer
\* has the status and the remaining it had before the pause.
C8_PauseResumeRestoresTimers ==
    [][\A sid \in DOMAIN sessions \cap DOMAIN pauseBase :
          (sessions[sid].status = SessionPaused /\ sessions'[sid].status = SessionActive)
              => \A k \in DOMAIN pauseBase[sid] :
                    /\ sessions'[sid].timerStates[k].status = pauseBase[sid][k].status
                    /\ sessions'[sid].timerStates[k].remaining
                           = pauseBase[sid][k].remaining]_vars

C10_DismissOnlyRunningOrFired ==
    \A sid \in DOMAIN sessions :
        \A k \in TimerIds :
            LET s == sessions[sid]
                r == DismissTimerCall(sid, k)
                ok == /\ k \in DOMAIN s.timerStates
                      /\ s.timerStates[k].status \in {TimerRunning, TimerFired}
            IN /\ (r.err = ErrNone) <=> ok
               /\ ok => r.sessions =
                            [sessions EXCEPT
                                ![sid].timerStates[k].status = TimerDismissed]
               /\ ~ok => r.sessions = sessions

\* a session holding a dismissed timer and a paused one, which a further
\* dismissTimer refuses
C10_Witness ==
    \E sid \in DOMAIN sessions :
        \E k1, k2 \in DOMAIN sessions[sid].timerStates :
            /\ sessions[sid].timerStates[k1].status = TimerDismissed
            /\ sessions[sid].timerStates[k2].status = TimerPaused
            /\ DismissTimerCall(sid, k2).err = ErrCannotDismiss
            /\ DismissTimerCall(sid, UnknownTimer).err = ErrTimerNotFound

\* the timers a call that leaves `store` behind has created in session sid
CreatedTimers(store, sid) ==
    DOMAIN store[sid].timerStates \ DOMAIN sessions[sid].timerStates

\* the timers advance or skip may create: one for the step that becomes
\* active, when that step has a timer config
ExpectedTimers(s) ==
    IF s.currentStepIndex = LastIndex(s) THEN {}
    ELSE LET next == StepAt(recipes[s.recipeID], s.currentStepIndex + 1)
         IN IF next.timer = 0 THEN {} ELSE {TimerID(next.id)}

\* C11: advance and skip leave every timer the session had as it was, and
\* create at most one timer: a pending one, with its full duration
\* remaining, for the newly active step when that step has a timer config.
C11_AdvanceSkipKeepTimers ==
    \A sid \in DOMAIN sessions :
        sessions[sid].status = SessionActive =>
            \A store \in {AdvanceCall(sid).sessions, SkipCall(sid).sessions} :
                /\ \A k \in DOMAIN sessions[sid].timerStates :
                       /\ k \in DOMAIN store[sid].timerStates
                       /\ store[sid].timerStates[k] = sessions[sid].timerStates[k]
                /\ CreatedTimers(store, sid) = ExpectedTimers(sessions[sid])
                /\ \A k \in CreatedTimers(store, sid) :
                       /\ store[sid].timerStates[k].status = TimerPending
                       /\ store[sid].timerStates[k].remaining
                              = store[sid].timerStates[k].duration

\* the second step is current and has its pending timer, while the timer of
\* the first step is still running, part of its time counted down
C11_Witness ==
    \E sid \in DOMAIN sessions :
        /\ sessions[sid].currentStepIndex = 1
        /\ DOMAIN sessions[sid].timerStates = {TimerID(1), TimerID(2)}
        /\ sessions[sid].timerStates[TimerID(1)].status = TimerRunning
        /\ sessions[sid].timerStates[TimerID(1)].remaining
               < sessions[sid].timerStates[TimerID(1)].duration
        /\ sessions[sid].timerStates[TimerID(2)].status = TimerPending

\* timer k of session sid is running in a session that can still be ticked
\* or advanced over
StillRunning(sid, k) ==
    /\ sid \in DOMAIN sessions
    /\ sessions[sid].status \in {SessionActive, SessionCompleted}
    /\ k \in DOMAIN sessions[sid].timerStates
    /\ sessions[sid].timerStates[k].status = TimerRunning

\* timer k has fired or been dismissed, or its session is paused or abandoned
Settled(sid, k) ==
    /\ sid \in DOMAIN sessions
    /\ k \in DOMAIN sessions[sid].timerStates
    /\ \/ sessions[sid].timerStates[k].status \in {TimerFired, TimerDismissed}
       \/ sessions[sid].status \in {SessionPaused, SessionAbandoned}

\* C12: under fair ticking a running timer eventually fires or is dismissed
\* (or its session is paused), whatever advance or skip follows, the one
\* that completes the session included.
C12_RunningTimerEventuallySettles ==
    \A sid \in SessionIds : \A k \in TimerIds :
        StillRunning(sid, k) ~> Settled(sid, k)

\* C13: at most one request is being played at any time: while audio of a
\* request sounds the processLoop goroutine is inside that request's
\* Player.Play, so it neither dequeues nor starts playing the next request
\* before the processing of the previous one has returned.
C13_OneRequestPlayedAtATime ==
    /\ Cardinality({p[1] : p \in sounding}) <= 1
    /\ sounding # {} =>
           /\ mouthPc = "playing"
           /\ sounding = {PlayerOf(item, chunk)}
    /\ mouthPc \in {"wait", "clear", "dequeue"} => item = NoRequest

\* the second chunk of a request sounds while two other requests wait in
\* the queue
C13_Witness ==
    /\ sounding = {PlayerOf(item, 2)}
    /\ Len(queue) = 2

\* C14: whenever the processLoop goroutine dequeues, the request it takes
\* has the highest priority among the requests queued at that moment and,
\* among the queued requests of that priority, is the one enqueued earliest.
C14_DequeueHighestPriorityEarliest ==
    [][(mouthPc = "dequeue" /\ mouthPc' = "mark") =>
          /\ \E i \in DOMAIN queue : item' = queue[i]
          /\ \A j \in DOMAIN queue :
                 /\ queue[j].priority <= item'.priority
                 /\ queue[j].priority = item'.priority
                        => item'.queuedAt <= queue[j].queuedAt]_vars

\* the request dequeued was enqueued after one of lower priority and before
\* one of its own priority, both still queued
C14_Witness ==
    /\ mouthPc = "mark"
    /\ Len(queue) = 2
    /\ queue[1].queuedAt < item.queuedAt
    /\ queue[1].priority < item.priority
    /\ queue[2].queuedAt > item.queuedAt
    /\ queue[2].priority = item.priority

NotLow(req) == req.priority # PriorityLow

\* C15: Say with a priority of normal or above removes every queued request
\* of priority low, keeps the other queued requests in their order and
\* appends the new request; Say with priority low removes nothing and appends
\* the new request; neither stops nor aborts the request being played,
\* whatever its priority.
C15_SayPurgesLowOnly ==
    [][queued' # queued =>
          LET req == queue'[Len(queue')]
          IN  /\ req.queuedAt = queued'
              /\ req.priority >= PriorityNormal
                     => queue' = Append(SelectSeq(queue, NotLow), req)
              /\ req.priority = PriorityLow => queue' = Append(queue, req)
              /\ UNCHANGED <<interrupted, mouthPc, item, audioSlots, chunk,
                             active, sounding, speaking>>]_vars

\* no Interrupt has cleared anything; the first request, of priority low,
\* sounds; the second one, low too, has left the queue without being
\* dequeued, and the third one, of priority normal or above, is queued
C15_Witness ==
    /\ interruptAt = 0
    /\ interruptPc = "idle"
    /\ item.priority = PriorityLow
    /\ item.queuedAt = 1
    /\ sounding = {PlayerOf(item, chunk)}
    /\ queued = 3
    /\ Len(queue) = 1
    /\ queue[1].queuedAt = 3
    /\ queue[1].priority >= PriorityNormal

\* The processLoop goroutine still holds the request that sounded when an
\* Interrupt cleared the queue.
CutInProgress == cutRequest # NoPlayer /\ item.queuedAt = cutRequest[1]

C17_NoAudioOfEarlierRequestAfterInterrupt ==
    [][\A p \in sounding' \ sounding : p[1] > returnedAt]_vars

\* What Advance and Skip write of a session.
OpView(s) ==
    [status |-> s.status, currentStepIndex |-> s.currentStepIndex,
     stepStates |-> s.stepStates, timers |-> DOMAIN s.timerStates]

\* C18: while an Advance or a Skip is in progress on a session, whatever
\* runs concurrently finds in the store that session either as it was before
\* the operation or as it is after it, never a partially updated one.
C18_AdvanceSkipSeenWholeOrNotAtAll ==
    opPc # "idle" =>
        OpView(Load(opSid)) \in {OpView(opBase), OpView(opAfter)}

C20_ZeroRemainingIffFiredOrDismissed ==
    \A sid \in DOMAIN sessions :
        \A k \in DOMAIN sessions[sid].timerStates :
            LET ts == sessions[sid].timerStates[k]
            IN  ts.remaining = 0 <=> ts.status \in {TimerFired, TimerDismissed}

\* C21: a timer goes from running to paused only in a successful Pause of
\* its session and from paused to running only in a successful Resume of its
\* session; no other engine operation and no step of a supervisor tick makes
\* either change.
C21_PauseResumeOwnTheirTransitions ==
    [][\A sid \in DOMAIN sessions :
         \A k \in DOMAIN sessions[sid].timerStates :
            LET before == sessions[sid].timerStates[k].status
                after == sessions'[sid].timerStates[k].status
            IN  /\ (before = TimerRunning /\ after = TimerPaused) =>
                       /\ PauseCall(sid).err = ErrNone
                       /\ sessions' = PauseCall(sid).sessions
                /\ (before = TimerPaused /\ after = TimerRunning) =>
                       /\ ResumeCall(sid).err = ErrNone
                       /\ sessions' = ResumeCall(sid).sessions]_vars

\* a timer that ran and was counted down is paused, in a paused session
C21_Witness ==
    \E sid \in DOMAIN sessions :
        /\ sessions[sid].status = SessionPaused
        /\ \E k \in DOMAIN sessions[sid].timerStates :
               LET ts == sessions[sid].timerStates[k]
               IN  ts.status = TimerPaused /\ ts.remaining < ts.duration

TimerTransitions ==
    {<<TimerPending, TimerRunning>>, <<TimerRunning, TimerPaused>>,
     <<TimerPaused, TimerRunning>>, <<TimerRunning, TimerFired>>,
     <<TimerRunning, TimerDismissed>>, <<TimerFired, TimerDismissed>>}

\* C22: under every interleaving of engine operations and the steps of
\* supervisor ticks, a timer's status changes only along pending->running,
\* running->paused, paused->running, running->fired, running->dismissed and
\* fired->dismissed, and a timer once created stays in its session, for the
\* same step and with the same duration.
C22_TimerStatusTransitions ==
    [][\A sid \in DOMAIN sessions :
         \A k \in DOMAIN sessions[sid].timerStates :
            /\ sid \in DOMAIN sessions'
            /\ k \in DOMAIN sessions'[sid].timerStates
            /\ LET before == sessions[sid].timerStates[k]
                   after == sessions'[sid].timerStates[k]
               IN  /\ after.stepID = before.stepID
                   /\ after.duration = before.duration
                   /\ after.status # before.status =>
                          <<before.status, after.status>> \in TimerTransitions]_vars

\* C23: a session whose status is paused has no timer whose status is
\* running, after any sequence of engine operations.
C23_PausedSessionHasNoRunningTimer ==
    \A sid \in DOMAIN sessions :
        sessions[sid].status = SessionPaused =>
            \A k \in DOMAIN sessions[sid].timerStates :
                sessions[sid].timerStates[k].status # TimerRunning

\* C24: once a session's status is completed or abandoned no engine
\* operation changes its status again.
C24_TerminalSessionKeepsStatus ==
    [][\A sid \in DOMAIN sessions :
         sessions[sid].status \in {SessionCompleted, SessionAbandoned} =>
             sessions'[sid].status = sessions[sid].status]_vars

\* C25: from every state Skip fails exactly when Advance fails, with the
\* same error, and otherwise returns the same step and leaves the same
\* session as Advance, except that the step left is skipped where Advance
\* leaves it done.
C25_SkipIsAdvanceButSkipped ==
    \A sid \in SessionIds :
        LET adv == AdvanceCall(sid)
            skp == SkipCall(sid)
        IN  /\ skp.err = adv.err
            /\ skp.val = adv.val
            /\ IF adv.err \in {ErrNone, ErrNoMoreSteps}
               THEN LET left == sessions[sid].currentStepIndex
                    IN  /\ adv.sessions[sid].stepStates[left] = StepDone
                        /\ skp.sessions[sid].stepStates[left] = StepSkipped
                        /\ skp.sessions =
                               [adv.sessions EXCEPT
                                   ![sid].stepStates[left] = StepSkipped]
               ELSE adv.sessions = sessions /\ skp.sessions = sessions

\* the first step was skipped with its timer running: that timer still
\* runs, counted down since, and a pending timer was made for the second step
C25_Witness ==
    \E sid \in DOMAIN sessions :
        LET s == sessions[sid]
        IN  /\ s.status = SessionActive
            /\ s.currentStepIndex = 1
            /\ s.stepStates[0] = StepSkipped
            /\ s.stepStates[1] = StepActive
            /\ DOMAIN s.timerStates = {TimerID(1), TimerID(2)}
            /\ s.timerStates[TimerID(1)].status = TimerRunning
            /\ s.timerStates[TimerID(1)].remaining < s.timerStates[TimerID(1)].duration
            /\ s.timerStates[TimerID(2)].status = TimerPending

\* C26: Mute sets the muted flag and pauses the detector and never changes
\* the state while that state is listening; Unmute clears the muted flag
\* and, while the state is listening, neither resumes the detector nor
\* changes the state; when the state is not listening Unmute resumes the
\* detector and sets the state dormant.
C26_MuteUnmuteRespectListening ==
    [][/\ \A who \in EarCallers :
            LET at == callPc[who]
                to == callPc'[who]
            IN  /\ (at = "idle" /\ to = "mutePause") => muted'
                /\ (at = "mutePause" /\ to = "muteSet") => paused'
                /\ (at = "muteSet" /\ to = "idle" /\ state = earListening)
                       => state' = earListening
       /\ LET at == callPc["orchestrator"]
              to == callPc'["orchestrator"]
          IN  /\ (at = "idle" /\ to = "idle" /\ muted /\ ~muted')
                     => state = earListening /\ UNCHANGED <<state, paused>>
              /\ (at = "idle" /\ to = "unmuteResume")
                     => ~muted' /\ state # earListening
              /\ (at = "unmuteResume" /\ to = "unmuteSet")
                     => state # earListening /\ ~paused'
              /\ (at = "unmuteSet" /\ to = "idle")
                     => state # earListening /\ state' = earDormant]_vars

\* What onWakeWord does for a detection, in the order it has to be done.
WakeOrder == <<"interrupt", "pause", "listening", "filler", "doListening">>

\* C27: for every detection that Run handles, the Mouth is interrupted, the
\* detector paused, the state set to listening, the filler enqueued and the
\* active-listen routine entered, in this order: the state has been set to
\* listening before the filler, and so before any Mute or Unmute the filler
\* causes, is enqueued.
C27_WakeWordOrder ==
    /\ [](/\ Len(earLog) <= Len(WakeOrder)
          /\ earLog = SubSeq(WakeOrder, 1, Len(earLog))
          /\ earPc \in {"capture", "mute", "muting", "resume", "dormant"}
                 => earLog = WakeOrder)
    /\ [][Len(earLog') > Len(earLog) =>
             LET done == earLog'[Len(earLog')]
             IN  /\ done = "pause" => paused'
                 /\ done = "listening" => state' = earListening
                 /\ done = "filler" =>
                        \E i \in DOMAIN earLog : earLog[i] = "listening"]_vars

\* the active-listen routine runs after the five steps, and a Mute that
\* came after the filler has read the state listening
C27_Witness ==
    /\ earPc = "capture"
    /\ earLog = WakeOrder
    /\ callPc["orchestrator"] = "muteSet"
    /\ curState["orchestrator"] = earListening
    /\ state = earListening

\* C28: the session store behaves as a map keyed by session id.  After
\* save(s), load(s.id) returns s, whether or not an entry was there, and the
\* other entries are as they were; load and delete of an absent id return
\* not-found and change nothing; load of a stored id returns its session;
\* after delete(id), load(id) returns not-found and the other entries are as
\* they were; listActive returns exactly the stored sessions whose status is
\* active or paused, and changes nothing.
C28_StoreBehavesAsMap ==
    [][/\ \A s \in StoreSessions :
            StoreSave(s) =>
                /\ stErr' = ErrNone
                /\ LoadSession(sessions', s.id) = Returned(ErrNone, {s})
                /\ DOMAIN sessions' = DOMAIN sessions \cup {s.id}
                /\ \A id \in DOMAIN sessions \ {s.id} :
                       sessions'[id] = sessions[id]
       /\ \A id \in StoreIds :
            StoreLoad(id) =>
                /\ sessions' = sessions
                /\ id \notin DOMAIN sessions =>
                       stErr' = ErrNotFound /\ stOut' = {}
                /\ id \in DOMAIN sessions =>
                       stErr' = ErrNone /\ stOut' = {sessions[id]}
       /\ \A id \in StoreIds :
            StoreDelete(id) =>
                /\ id \notin DOMAIN sessions =>
                       stErr' = ErrNotFound /\ sessions' = sessions
                /\ id \in DOMAIN sessions => stErr' = ErrNone
                /\ LoadSession(sessions', id) = Returned(ErrNotFound, {})
                /\ DOMAIN sessions' = DOMAIN sessions \ {id}
                /\ \A other \in DOMAIN sessions \ {id} :
                       sessions'[other] = sessions[other]
       /\ StoreListActive =>
                /\ sessions' = sessions
                /\ stErr' = ErrNone
                /\ \A s \in StoreSessions :
                       s \in stOut' <=>
                           /\ s.id \in DOMAIN sessions
                           /\ sessions[s.id] = s
                           /\ s.status \in {SessionActive, SessionPaused}
      ]_vars

\* The last call was a delete of s1 that succeeded, and the paused session
\* stored under s2 is still there.
C28_Witness ==
    /\ stOp = "delete"
    /\ stArg = "s1"
    /\ stErr = ErrNone
    /\ DOMAIN sessions = {"s2"}
    /\ sessions["s2"] = StoredSession("s2", SessionPaused)

\* C29: every successful update(recipe) leaves the stored recipe of that id
\* with a version strictly greater than the version stored for it before the
\* call, whatever version the passed recipe carries; update of an id that is
\* not in the source fails with not-found and changes nothing, and update of
\* an id that is in the source succeeds.
C29_UpdateRaisesStoredVersion ==
    [][updCount' # updCount =>
          /\ updArg'.id \notin DOMAIN recipes =>
                 /\ updErr' = ErrNotFound
                 /\ recipes' = recipes
                 /\ versions' = versions
          /\ updArg'.id \in DOMAIN recipes => updErr' = ErrNone
          /\ updErr' = ErrNone =>
                 /\ updArg'.id \in DOMAIN recipes
                 /\ versions'[updArg'.id] > versions[updArg'.id]
      ]_vars

\* C30: a watcher cycle changes no field of any session, step state or timer
\* and saves nothing to the store: every step of the watcher leaves the
\* store, the recipes and the clock as they were.  Its only effect is to emit
\* notifications: in a cycle at most one for each session, and only for
\* sessions that its ListActive returned, which were active or paused then.
C30_WatcherOnlyNotifies ==
    /\ [](\A sid \in SessionIds :
              /\ watchCount[sid] <= 1
              /\ watchCount[sid] = 1 => sid \in watchListed)
    /\ [][watchVars' # watchVars =>
              /\ sessions' = sessions
              /\ recipes' = recipes
              /\ notes' = notes
              /\ now' = now
              /\ watchPc = "idle" =>
                     /\ watchListed' =
                            {sid \in DOMAIN sessions :
                                sessions[sid].status \in
                                    {SessionActive, SessionPaused}}
                     /\ \A sid \in SessionIds : watchCount'[sid] = 0
              /\ watchPc # "idle" =>
                     /\ watchListed' = watchListed
                     /\ \A sid \in SessionIds :
                            watchCount'[sid] >= watchCount[sid]
      ]_vars

\* The watcher has notified once about the active session s1, which has a
\* fired timer, and its cycle is not over.
C30_Witness ==
    /\ watchPc = "check"
    /\ watchCount["s1"] = 1
    /\ "s1" \in DOMAIN sessions
    /\ sessions["s1"].status = SessionActive
    /\ \E k \in DOMAIN sessions["s1"].timerStates :
           sessions["s1"].timerStates[k].status = TimerFired

\* C31: a synthesis error for a chunk only causes that chunk to be skipped
\* and a playback error only loses that chunk.  The worker leaves a request
\* with a chunk that has audio still ahead only when it has seen an
\* interrupt; on its way through the chunks it passes over none that has
\* audio; a request of one chunk is given up only when its synthesis failed
\* or its playback returned.  And whatever failed, the worker ends up waiting
\* with every request taken from the queue and processed to its end.
AudioAhead ==
    IF mouthPc \in {"check", "open"}
    THEN {c \in audioSlots : c >= chunk}
    ELSE {c \in audioSlots : c > chunk}

C31_ErrorsLoseOnlyTheirChunk ==
    /\ [][/\ mouthPc \in {"check", "start", "playing"} /\ mouthPc' = "unmark" =>
                AudioAhead = {} \/ interrupted
          /\ mouthPc = "open" /\ mouthPc' = "unmark" =>
                AudioAhead \ {chunk} = {}
          /\ mouthPc = "check" /\ mouthPc' = "open" =>
                /\ chunk' \in audioSlots
                /\ \A c \in AudioAhead : chunk' <= c
          /\ mouthPc \in {"open", "playing"} /\ mouthPc' = "check" =>
                chunk' = chunk + 1
          /\ mouthPc = "synth" /\ mouthPc' = "unmark" =>
                audioSlots' = {} /\ Cardinality(splitChunks(item.text)) = 1
          /\ mouthPc = "synth" /\ mouthPc' # "synth" /\ audioSlots' # {} =>
                mouthPc' \in {"check", "open"} /\ chunk' = 1
         ]_vars
    /\ <>[](mouthPc = "wait" /\ queue = <<>> /\ item = NoRequest)

\* The synthesis of the first chunk of a request of two chunks failed, no
\* interrupt is pending, and the second chunk is playing.
C31_Witness ==
    /\ Cardinality(splitChunks(item.text)) = 2
    /\ audioSlots = {2}
    /\ chunk = 2
    /\ mouthPc = "playing"
    /\ ~interrupted
    /\ Len(queue) > 0

\* C32: a request enqueued by Say after Interrupt has returned is not
\* discarded because of that Interrupt.  With one caller a request enqueued
\* after the last Interrupt began was enqueued after it returned, so the
\* worker abandons a request with audio still ahead only if an Interrupt
\* began after the request was enqueued.
C32_EarlierInterruptDiscardsNothingLater ==
    [][(mouthPc = "check" /\ mouthPc' = "unmark" /\ AudioAhead # {}) =>
          item.queuedAt <= interruptAt]_vars

\* C33: for every session whose status is active or paused, the step indices
\* present in its step-state map are exactly the indices 0..n-1 of the
\* current steps of its recipe, also after the applier has added or removed
\* a step.
C33_StepStatesMatchRecipe ==
    \A sid \in DOMAIN sessions :
        sessions[sid].status \in {SessionActive, SessionPaused} =>
            DOMAIN sessions[sid].stepStates =
                0..(Len(recipes[sessions[sid].recipeID]) - 1)

\* C34: While the Ear's active-listen routine (doListening) is running, the
\* Ear's state is listening and the wake-word detector is paused, whatever
\* Mute and Unmute calls of other goroutines interleave with onWakeWord.
C34_ListeningWhileCapturing ==
    earPc = "capture" => state = earListening /\ paused

\* C35: every request enqueued by Say that is not removed by a later
\* Interrupt or by the purge of low-priority requests is eventually dequeued
\* and processed by the worker, whatever the interleaving of Say with the
\* worker's check for an empty queue.  A request leaves the queue only as
\* the worker's current item, by an Interrupt or, being of low priority, by
\* the purge of a Say; the queue is empty again and again, so that every
\* request in it leaves it; and the worker is back waiting again and again,
\* so that it goes through the processing of every item it has taken.
QueuedIds == {queue[i].queuedAt : i \in 1..Len(queue)}

C35_QueuedRequestsAreProcessed ==
    /\ [][\A i \in 1..Len(queue) :
              queue[i].queuedAt \notin QueuedIds' =>
                 \/ item' = queue[i] /\ mouthPc = "dequeue" /\ mouthPc' = "mark"
                 \/ interruptAt' >= queue[i].queuedAt /\ interruptPc' = "stop"
                 \/ queue[i].priority = PriorityLow /\ queued' > queued
         ]_vars
    /\ []<>(queue = <<>>)
    /\ []<>(mouthPc = "wait")

\* The worker, woken by an earlier send, is at its check of the queue with
\* nothing left on the notify channel, while a request is in the queue whose
\* Say has not made its send yet.
C35_Witness ==
    /\ mouthPc = "dequeue"
    /\ notify = 0
    /\ signals > 0
    /\ Len(queue) > 0

\* C36: after DismissTimer has returned successfully for a timer, the
\* supervisor emits no further notification (fire, escalation, almost-done or
\* reminder) for that timer, whatever tick is in progress: no step adds a
\* notification for a timer whose status is dismissed.
C36_NoNotificationAfterDismiss ==
    [][\A sid \in DOMAIN sessions :
         \A k \in DOMAIN sessions[sid].timerStates :
            sessions[sid].timerStates[k].status = TimerDismissed =>
               NotesOf(notes', sid, k) = NotesOf(notes, sid, k)]_vars

\* C37: the content of a recipe as the source's Get returns it changes only
\* through a successful Update, which also increments its version; an
\* ApplyActions call that fails part-way through its action list leaves the
\* stored recipe exactly as it was.
C37_RecipeChangesOnlyByUpdate ==
    [][\A id \in RecipeIds :
          recipes'[id] # recipes[id] =>
             /\ updCount' = updCount + 1
             /\ updErr' = ErrNone
             /\ versions'[id] = versions[id] + 1]_vars

\* C38: after any sequence of applier actions on a recipe whose step ids are
\* pairwise distinct at first, the step ids of the recipe are still pairwise
\* distinct, so that the timer ids of different steps never collide.
C38_StepIdsDistinct ==
    \A id \in RecipeIds :
       \A i, j \in 1..Len(recipes[id]) :
          i # j => /\ recipes[id][i].id # recipes[id][j].id
                   /\ TimerID(recipes[id][i].id) # TimerID(recipes[id][j].id)

\* C39: within a session the current step index never decreases and is
\* always the index of one of its step states; the status of a step only
\* moves forward, from pending to active and from active to done or
\* skipped; and in every reachable state every step before the current
\* index is done or skipped and every step after it is pending.
StepMoves ==
    {<<StepPending, StepActive>>, <<StepActive, StepDone>>,
     <<StepActive, StepSkipped>>}

StepsInOrder(s) ==
    /\ s.currentStepIndex \in DOMAIN s.stepStates
    /\ DOMAIN s.stepStates = 0..(Cardinality(DOMAIN s.stepStates) - 1)
    /\ \A i \in DOMAIN s.stepStates :
          /\ i < s.currentStepIndex => s.stepStates[i] \in {StepDone, StepSkipped}
          /\ i > s.currentStepIndex => s.stepStates[i] = StepPending

C39_StepsMoveForward ==
    [][/\ \A sid \in DOMAIN sessions' : StepsInOrder(sessions'[sid])
       /\ \A sid \in DOMAIN sessions \cap DOMAIN sessions' :
             /\ sessions'[sid].currentStepIndex >= sessions[sid].currentStepIndex
             /\ DOMAIN sessions'[sid].stepStates = DOMAIN sessions[sid].stepStates
             /\ \A i \in DOMAIN sessions[sid].stepStates :
                   \/ sessions'[sid].stepStates[i] = sessions[sid].stepStates[i]
                   \/ <<sessions[sid].stepStates[i],
                        sessions'[sid].stepStates[i]>> \in StepMoves
      ]_vars

\* A completed session on a recipe of two steps whose first step was skipped
\* and whose second step was advanced past.
C39_Witness ==
    \E sid \in DOMAIN sessions :
        /\ sessions[sid].status = SessionCompleted
        /\ sessions[sid].currentStepIndex = 1
        /\ sessions[sid].stepStates[0] = StepSkipped
        /\ sessions[sid].stepStates[1] = StepDone

\* C40: after every wake-word activation the Ear eventually returns to the
\* state dormant with the detector resumed, provided the Mouth eventually
\* falls idle and Unmute is called only on the Mouth's stop events; this
\* includes a command delivered on the text channel that leads to no spoken
\* response.  An activation is taken where its active-listen routine runs.
C40_EarReturnsToDormant ==
    (earPc = "capture") ~> (state = earDormant /\ ~paused)

============================================================================
